---- MODULE Spec2Model ----
(***************************************************************************)
(* galaxy-mask: two heatmap views (Heatmap.vue) that paint and erase one   *)
(* shared mask held by the application (App.vue), with the mask helpers of *)
(* lib/mask.ts.                                                            *)
(*                                                                         *)
(* One action is one DOM event (or one toolbar / file operation).  The     *)
(* browser runs a microtask checkpoint after every listener callback, so   *)
(* Vue's pre-flush watchers run between two listeners of the same event:   *)
(* an action is the sequence  listener ; Flush ; listener ; Flush ...      *)
(* in the order the listeners were registered (the application's keydown   *)
(* listener first, then the left view's, then the right view's).           *)
(*                                                                         *)
(* Strings are sequences of one-character strings, so that coordToKey and  *)
(* keyToCoord are modelled by what they do to the characters.              *)
(* Coordinates are records [x |-> column, y |-> row] as in the source.     *)
(* Half-integer geometry (cell centres, the 0.5 test box) is kept exact by *)
(* doubling every coordinate.                                              *)
(***************************************************************************)
EXTENDS Integers, Sequences, FiniteSets, TLC

\* ------------------------------------------------------------------ bounds
\* Data matrices of the two views (left = 1, right = 2); the right view has
\* no file loaded.
LeftRows == 1
LeftCols == 2
RightRows == 0
RightCols == 0
\* Data matrix of each view when both views have a file loaded.
PairRows == 1
PairCols == 1
\* Largest number of pending polygon vertices explored.
MaxNodes == 3
\* Largest mask file explored.
MaxFileRows == 1
MaxFileCols == 2

\* Largest row / column index given to the coordinate codec.
MaxCoord == 25
\* Dense matrices of 0..DenseDim rows and columns; mask members have row and
\* column indices 0..DenseDim, so that some lie outside every matrix.
DenseDim == 2
\* Largest mask given to the dense-matrix conversion.
MaxMaskSize == 3
\* Grid of the coordinates given to the mask store on its own.
StoreRows == 2
StoreCols == 2
\* Longest batch given to the mask store on its own.
MaxBatch == 3
\* Data matrix of the only view of the rectangle scenario.
RectRows == 3
RectCols == 3
\* Data matrix of the only view of the polygon scenario.
PolyRows == 5
PolyCols == 5
\* Largest clientX / clientY of a pointer (besides the centre of a wide view).
MaxPointerX == 24
MaxPointerY == 12
\* Data matrices of the two views of the two-grid scenario.
ToolsLeftRows == 1
ToolsLeftCols == 2
ToolsRightRows == 1
ToolsRightCols == 1
\* Data matrix of the only view of the vertex scenario, and the largest
\* number of pending vertices explored there.
VertexRows == 3
VertexCols == 3
MaxVertices == 4
\* Pan scenario: the translation stays within -MaxPan..MaxPan pixels.
MaxPan == 1
\* Upload scenario: file reads in flight at once.
MaxUploads == 2

Views == {1, 2}

\* ---------------------------------------------------------- lib/mask.ts
Digits == <<"0", "1", "2", "3", "4", "5", "6", "7", "8", "9">>

\* `${n}` for a non-negative integer n: its decimal digits.
RECURSIVE NumberToString(_)
NumberToString(n) ==
  IF n < 10 THEN <<Digits[n + 1]>>
  ELSE NumberToString(n \div 10) \o <<Digits[(n % 10) + 1]>>

\* The NaN that Number yields for a non-numeric string (compares false with
\* every bound).
NaN == -1

DigitValue(ch) == CHOOSE d \in 0..9 : Digits[d + 1] = ch

IsDigit(ch) == \E d \in 0..9 : Digits[d + 1] = ch

\* Number(str) for the strings a key can hold: "" is 0, a digit string is
\* its value, anything else is NaN.
RECURSIVE StringToNumber(_)
StringToNumber(str) ==
  IF Len(str) = 0 THEN 0
  ELSE IF \E k \in 1..Len(str) : ~IsDigit(str[k]) THEN NaN
  ELSE IF Len(str) = 1 THEN DigitValue(str[1])
  ELSE 10 * StringToNumber(SubSeq(str, 1, Len(str) - 1)) + DigitValue(str[Len(str)])

\* str.split(','): the pieces between the commas (always at least one).
RECURSIVE Split(_)
Split(str) ==
  IF \A k \in 1..Len(str) : str[k] /= "," THEN <<str>>
  ELSE LET k == CHOOSE k \in 1..Len(str) :
                  str[k] = "," /\ \A m \in 1..(k - 1) : str[m] /= ","
       IN <<SubSeq(str, 1, k - 1)>> \o Split(SubSeq(str, k + 1, Len(str)))

\* A key without its separator.
coordToKey_NoSeparator(i, j) == NumberToString(i) \o NumberToString(j)

coordToKey(i, j) == NumberToString(i) \o <<",">> \o NumberToString(j)

keyToCoord(key) ==
  LET parts == Split(key) IN [k \in 1..Len(parts) |-> StringToNumber(parts[k])]

\* mask is a sequence of rows, each a sequence of booleans; indices are
\* 0-based in the source, 1-based here.
arrayToSet(mask) ==
  UNION {{coordToKey(i - 1, j - 1) : j \in {j \in 1..Len(mask[i]) : mask[i][j]}} :
           i \in 1..Len(mask)}

\* Row and column exchanged when the matrix is written.
setToArray_Transposed(maskSet, r, c) ==
  [i \in 1..r |-> [j \in 1..c |->
     \E key \in maskSet :
       LET k == keyToCoord(key) IN
         /\ Len(k) >= 2
         /\ k[2] = i - 1 /\ k[1] = j - 1]]

setToArray(maskSet, rows, cols) ==
  [i \in 1..rows |-> [j \in 1..cols |->
     \E key \in maskSet :
       LET c == keyToCoord(key) IN
         /\ Len(c) >= 2
         /\ c[1] = i - 1 /\ c[2] = j - 1
         /\ c[1] >= 0 /\ c[1] < rows /\ c[2] >= 0 /\ c[2] < cols]]

areMasksEqual(mask1, mask2) ==
  IF Cardinality(mask1) /= Cardinality(mask2) THEN FALSE
  ELSE \A key \in mask1 : key \in mask2

\* ------------------------------------------------------ Heatmap.vue: state
\* The null reference of a cell-valued variable.
Null == [x |-> -1, y |-> -1]

\* The cells of a rows x cols grid.
GridCells(r, c) == {[x |-> j, y |-> i] : i \in 0..(r - 1), j \in 0..(c - 1)}

VARIABLES
  mask,            \* App.vue: mask, the application's Set of keys
  mode,            \* App.vue: state.mode
  tool,            \* App.vue: state.tool
  ctrlKey,         \* the ctrl modifier the browser reports in pointer events
  zoomGesture,     \* a d3-zoom mouse gesture is in progress
  gestureView,     \* the view whose zoom behaviour runs it (0: none)
  viewTransform,   \* per view: the transform of its zoom behaviour
  transform,       \* App.vue: state.transform, shared by the views
  filename,        \* App.vue: galaxyLeftFilename, galaxyRightFilename
  error,           \* App.vue: error
  uploads,         \* upload handlers suspended at an await
  rows, cols,      \* per view: dimensions of props.data
  localMask,       \* per view: localMask
  painted,         \* per view: the cells whose rect is filled black
  isShiftPressed, isCtrlPressed, isMousePressed,
  lastMaskedCell,
  isSelecting, selectionStart, selectionEnd, selectionRect,
  shapeNodes,
  committed,       \* batches handed to handleMaskUpdate(s) by the last event
  emitted,         \* update:mask notifications of the last event, in order
  closed,          \* calls of closeShape in the last event, in order
  probe            \* inputs and results of a helper applied on its own

stateVars == <<mask, mode, tool, ctrlKey, zoomGesture, gestureView,
               viewTransform, transform,
               filename, error, uploads, rows,
               cols, localMask, painted, isShiftPressed, isCtrlPressed, isMousePressed,
               lastMaskedCell, isSelecting, selectionStart, selectionEnd,
               selectionRect, shapeNodes, committed, emitted, closed>>

vars == <<stateVars, probe>>

\* The program state as one record, so that handlers compose as functions.
\* maskTriggered: the mask Set was mutated or replaced since the last flush.
Cur ==
  [mask |-> mask, mode |-> mode, tool |-> tool, ctrlKey |-> ctrlKey,
   zoomGesture |-> zoomGesture, gestureView |-> gestureView,
   viewTransform |-> viewTransform, transform |-> transform,
   filename |-> filename, error |-> error, uploads |-> uploads,
   rows |-> rows, cols |-> cols,
   localMask |-> localMask, painted |-> painted,
   isShiftPressed |-> isShiftPressed,
   isCtrlPressed |-> isCtrlPressed, isMousePressed |-> isMousePressed,
   lastMaskedCell |-> lastMaskedCell, isSelecting |-> isSelecting,
   selectionStart |-> selectionStart, selectionEnd |-> selectionEnd,
   selectionRect |-> selectionRect, shapeNodes |-> shapeNodes,
   maskTriggered |-> FALSE, committed |-> <<>>, emitted |-> <<>>,
   closed |-> <<>>]

Becomes(s) ==
  /\ mask' = s.mask /\ mode' = s.mode /\ tool' = s.tool
  /\ ctrlKey' = s.ctrlKey /\ zoomGesture' = s.zoomGesture
  /\ transform' = s.transform
  /\ gestureView' = s.gestureView /\ viewTransform' = s.viewTransform
  /\ filename' = s.filename /\ error' = s.error /\ uploads' = s.uploads
  /\ rows' = s.rows /\ cols' = s.cols
  /\ localMask' = s.localMask
  /\ painted' = s.painted
  /\ isShiftPressed' = s.isShiftPressed
  /\ isCtrlPressed' = s.isCtrlPressed
  /\ isMousePressed' = s.isMousePressed
  /\ lastMaskedCell' = s.lastMaskedCell
  /\ isSelecting' = s.isSelecting
  /\ selectionStart' = s.selectionStart
  /\ selectionEnd' = s.selectionEnd
  /\ selectionRect' = s.selectionRect
  /\ shapeNodes' = s.shapeNodes
  /\ committed' = s.committed
  /\ emitted' = s.emitted
  /\ closed' = s.closed
  /\ probe' = probe

\* ------------------------------------------------- Heatmap.vue: mask store
\* Result of the forEach over coordinates: the local mask afterwards and the
\* array of the coordinates that were actually added, in order.
\* Every coordinate is reported, whether it was present or not.
addMaskCoordinates_NoMembershipTest(local, coordinates) ==
  [localMask |-> local \cup {coordToKey(coordinates[k].y, coordinates[k].x) :
                               k \in 1..Len(coordinates)},
   changed |-> coordinates]

addMaskCoordinates(local, coordinates) ==
  LET step[k \in 0..Len(coordinates)] ==
        IF k = 0 THEN [localMask |-> local, changed |-> <<>>]
        ELSE LET p == step[k - 1]
                 c == coordinates[k]
             IN IF coordToKey(c.y, c.x) \notin p.localMask
                THEN [localMask |-> p.localMask \cup {coordToKey(c.y, c.x)},
                      changed |-> Append(p.changed, c)]
                ELSE p
  IN step[Len(coordinates)]

\* The key built from (x, y) instead of (y, x).
removeMaskCoordinates_SwappedKey(local, coordinates) ==
  LET step[k \in 0..Len(coordinates)] ==
        IF k = 0 THEN [localMask |-> local, changed |-> <<>>]
        ELSE LET p == step[k - 1]
                 c == coordinates[k]
             IN IF coordToKey(c.x, c.y) \in p.localMask
                THEN [localMask |-> p.localMask \ {coordToKey(c.x, c.y)},
                      changed |-> Append(p.changed, c)]
                ELSE p
  IN step[Len(coordinates)]

removeMaskCoordinates(local, coordinates) ==
  LET step[k \in 0..Len(coordinates)] ==
        IF k = 0 THEN [localMask |-> local, changed |-> <<>>]
        ELSE LET p == step[k - 1]
                 c == coordinates[k]
             IN IF coordToKey(c.y, c.x) \in p.localMask
                THEN [localMask |-> p.localMask \ {coordToKey(c.y, c.x)},
                      changed |-> Append(p.changed, c)]
                ELSE p
  IN step[Len(coordinates)]

\* The add flag is not read: every notification is applied as an addition.
AppHandleMaskUpdate_AlwaysAdds(s, v, maskUpdate) ==
  LET keys == {coordToKey(maskUpdate.values[k].y, maskUpdate.values[k].x) :
                 k \in 1..Len(maskUpdate.values)}
      newMask == s.mask \cup keys
  IN [s EXCEPT !.mask = newMask,
               !.maskTriggered = s.maskTriggered \/ newMask /= s.mask,
               !.emitted = Append(s.emitted,
                  [view |-> v, values |-> maskUpdate.values,
                   add |-> maskUpdate.add, maskBefore |-> s.mask])]

\* App.vue handleMaskUpdate, the listener of update:mask: runs synchronously
\* inside emit.  Set.add / Set.delete trigger the deep watchers of props.mask
\* only when they change the Set.
AppHandleMaskUpdate(s, v, maskUpdate) ==
  LET keys == {coordToKey(maskUpdate.values[k].y, maskUpdate.values[k].x) :
                 k \in 1..Len(maskUpdate.values)}
      newMask == IF maskUpdate.add THEN s.mask \cup keys ELSE s.mask \ keys
  IN [s EXCEPT !.mask = newMask,
               !.maskTriggered = s.maskTriggered \/ newMask /= s.mask,
               !.emitted = Append(s.emitted,
                  [view |-> v, values |-> maskUpdate.values,
                   add |-> maskUpdate.add, maskBefore |-> s.mask])]

\* updateColors: every cell rect is filled from getSquareColor, which gives
\* black for the cells whose key is in the local mask.  The result is the set
\* of the cells filled black.
updateColors(local, r, c) ==
  {cell \in GridCells(r, c) : coordToKey(cell.y, cell.x) \in local}

\* updateCellColors: the rects of the named cells are filled from
\* getSquareColor; a cell without a rect is skipped.
updateCellColors(paintedCells, local, cells, r, c) ==
  LET drawn == cells \cap GridCells(r, c)
  IN (paintedCells \ drawn) \cup {cell \in drawn : coordToKey(cell.y, cell.x) \in local}

\* The repaint after a batch of changed cells: all the rects when more than
\* 10 cells changed, the changed ones otherwise.
repaintChanged(paintedCells, local, cells, r, c) ==
  IF Cardinality(cells) > 10 THEN updateColors(local, r, c)
  ELSE IF Cardinality(cells) > 0 THEN updateCellColors(paintedCells, local, cells, r, c)
  ELSE paintedCells

\* The end of addMaskCoordinates / removeMaskCoordinates: the repaint of the
\* coordinates that were added or removed (result is what the forEach left).
repaintCoordinates(paintedCells, result, r, c) ==
  repaintChanged(paintedCells, result.localMask,
                 {result.changed[k] : k \in 1..Len(result.changed)}, r, c)

\* The cell { x: j, y: i } of const [i, j] = keyToCoord(key).
cellOfKey(key) ==
  LET c == keyToCoord(key)
  IN [x |-> IF Len(c) >= 2 THEN c[2] ELSE NaN, y |-> c[1]]

\* Every mode other than mask erases.
handleMaskUpdates_EraseUnlessMask(s, v, coordinates) ==
  LET r == IF s.mode = "mask" THEN addMaskCoordinates(s.localMask[v], coordinates)
           ELSE removeMaskCoordinates(s.localMask[v], coordinates)
      s1 == [s EXCEPT !.localMask[v] = r.localMask,
                      !.painted[v] = repaintCoordinates(@, r, s.rows[v], s.cols[v]),
                      !.committed = Append(s.committed,
                         [view |-> v, coordinates |-> coordinates,
                          mode |-> s.mode, before |-> s.localMask[v],
                          after |-> r.localMask, gesture |-> [kind |-> "cell"]])]
  IN IF Len(r.changed) > 0
     THEN AppHandleMaskUpdate(s1, v, [values |-> r.changed, add |-> s.mode = "mask"])
     ELSE s1

\* The body shared by handleMaskUpdate (one coordinate) and handleMaskUpdates
\* (a batch): add in mask mode, remove in erase mode, nothing otherwise; emit
\* only when something changed.
handleMaskUpdates(s, v, coordinates) ==
  LET r == IF s.mode = "mask" THEN addMaskCoordinates(s.localMask[v], coordinates)
           ELSE IF s.mode = "erase"
                THEN removeMaskCoordinates(s.localMask[v], coordinates)
                ELSE [localMask |-> s.localMask[v], changed |-> <<>>]
      s1 == [s EXCEPT !.localMask[v] = r.localMask,
                      !.painted[v] = repaintCoordinates(@, r, s.rows[v], s.cols[v]),
                      !.committed = Append(s.committed,
                         [view |-> v, coordinates |-> coordinates,
                          mode |-> s.mode, before |-> s.localMask[v],
                          after |-> r.localMask, gesture |-> [kind |-> "cell"]])]
  IN IF Len(r.changed) > 0
     THEN AppHandleMaskUpdate(s1, v, [values |-> r.changed, add |-> s.mode = "mask"])
     ELSE s1

handleMaskUpdate(s, v, coordinates) == handleMaskUpdates(s, v, <<coordinates>>)

\* Only the additions are applied (no key is ever removed).
updateMask_AdditionsOnly(local, newMaskSet) ==
  IF Cardinality(newMaskSet) > 0
  THEN LET toAdd == {key \in newMaskSet : key \notin local}
       IN [localMask |-> local \cup toAdd, toAdd |-> toAdd, toRemove |-> {},
           cellsToUpdate |-> toAdd]
  ELSE [localMask |-> local, toAdd |-> {}, toRemove |-> {}, cellsToUpdate |-> {}]

\* updateMask: both directions of the difference, skipped for an empty Set.
updateMask(local, newMaskSet) ==
  IF Cardinality(newMaskSet) > 0
  THEN LET toAdd == {key \in newMaskSet : key \notin local}
           afterAdd == local \cup toAdd
           toRemove == {key \in afterAdd : key \notin newMaskSet}
       IN [localMask |-> afterAdd \ toRemove, toAdd |-> toAdd, toRemove |-> toRemove,
           cellsToUpdate |-> toAdd \cup toRemove]
  ELSE [localMask |-> local, toAdd |-> {}, toRemove |-> {}, cellsToUpdate |-> {}]

\* Without the branch for the empty mask (updateMask skips an empty Set).
watchMask_NoClear(local, newMask) ==
  IF areMasksEqual(newMask, local)
  THEN [localMask |-> local, toAdd |-> {}, toRemove |-> {}, cellsToUpdate |-> {}]
  ELSE updateMask(local, newMask)

\* The callback of watch(() => props.mask): clear on an empty mask, nothing
\* on an equal one, updateMask otherwise.  cellsToUpdate: the keys of the
\* cells handed to updateColors / updateCellColors (none when the local mask
\* is cleared).
watchMask(local, newMask) ==
  IF Cardinality(newMask) = 0
  THEN [localMask |-> {}, toAdd |-> {}, toRemove |-> local, cellsToUpdate |-> {}]
  ELSE IF areMasksEqual(newMask, local)
       THEN [localMask |-> local, toAdd |-> {}, toRemove |-> {}, cellsToUpdate |-> {}]
       ELSE updateMask(local, newMask)

clearShape(s, v) == [s EXCEPT !.shapeNodes[v] = <<>>]

\* Only the change of the mode is answered.
watchToolMode_ModeOnly(s, v, oldTool, oldMode) ==
  IF oldTool = "shape" /\ oldMode = "mask" /\ s.mode /= "mask" /\ s.mode /= "erase"
  THEN clearShape(s, v)
  ELSE s

\* The callback of watch([tool, mode]).
watchToolMode(s, v, oldTool, oldMode) ==
  IF \/ (oldTool = "shape" /\ s.tool /= "shape")
     \/ (oldTool = "shape" /\ oldMode = "mask" /\ s.mode /= "mask" /\ s.mode /= "erase")
  THEN clearShape(s, v)
  ELSE s

\* What the callback of watch(() => props.mask) leaves in view v: the local
\* mask, and the repaint of the cells updateMask names (w is the result of
\* watchMask).
maskWatched(t, v, w) ==
  [t EXCEPT !.localMask[v] = w.localMask,
            !.painted[v] = repaintChanged(@, w.localMask,
                             {cellOfKey(key) : key \in w.cellsToUpdate},
                             t.rows[v], t.cols[v])]

\* Vue's pre-flush after a listener: every view's watchers whose source
\* changed since the state `old` the listener started from.
Flush(old, s) ==
  LET runMask(t, v) ==
        IF s.maskTriggered
        THEN maskWatched(t, v, watchMask(t.localMask[v], t.mask))
        ELSE t
      runTool(t, v) ==
        IF s.tool /= old.tool \/ s.mode /= old.mode
        THEN watchToolMode(t, v, old.tool, old.mode)
        ELSE t
      view(t, v) == runTool(runMask(t, v), v)
  IN [view(view(s, 1), 2) EXCEPT !.maskTriggered = FALSE]

\* ------------------------------------------ Heatmap.vue: rectangle strategy
\* Observation only: the batch just committed is tagged with the gesture it
\* came from (a single cell unless tagged otherwise).
Tagged(s, gesture) ==
  [s EXCEPT !.committed[Len(s.committed)].gesture = gesture]

Min(a, b) == IF a < b THEN a ELSE b
Max(a, b) == IF a > b THEN a ELSE b

\* The loops stop before the maximum row and column.
selectedCells_Exclusive(start, end, r, c) ==
  LET minX == Min(start.x, end.x)
      maxX == Max(start.x, end.x)
      minY == Min(start.y, end.y)
      maxY == Max(start.y, end.y)
      w == maxX - minX
      h == maxY - minY
      box == [k \in 1..(w * h) |->
                [x |-> minX + ((k - 1) % w), y |-> minY + ((k - 1) \div w)]]
      inGrid(cell) == cell.x >= 0 /\ cell.x < c /\ cell.y >= 0 /\ cell.y < r
  IN SelectSeq(box, inGrid)

\* The nested y / x loops of handleSelectionComplete: the cells of the
\* bounding box of the two corners in row-major order, kept when inside the
\* grid.
selectedCells(start, end, r, c) ==
  LET minX == Min(start.x, end.x)
      maxX == Max(start.x, end.x)
      minY == Min(start.y, end.y)
      maxY == Max(start.y, end.y)
      w == maxX - minX + 1
      h == maxY - minY + 1
      box == [k \in 1..(w * h) |->
                [x |-> minX + ((k - 1) % w), y |-> minY + ((k - 1) \div w)]]
      inGrid(cell) == cell.x >= 0 /\ cell.x < c /\ cell.y >= 0 /\ cell.y < r
  IN SelectSeq(box, inGrid)

handleSelectionComplete(s, v) ==
  IF s.selectionStart[v] = Null \/ s.selectionEnd[v] = Null THEN s
  ELSE LET s0 == handleMaskUpdates(s, v,
                   selectedCells(s.selectionStart[v], s.selectionEnd[v],
                                 s.rows[v], s.cols[v]))
           s1 == Tagged(s0, [kind |-> "rectangle", start |-> s.selectionStart[v],
                             end |-> s.selectionEnd[v]])
       IN [s1 EXCEPT !.selectionRect[v] = FALSE,
                     !.selectionStart[v] = Null,
                     !.selectionEnd[v] = Null,
                     !.isSelecting[v] = FALSE]

\* -------------------------------------------- Heatmap.vue: polygon strategy
\* Coordinates with the suffix 2 are doubled: the cell centre (x + 0.5,
\* y + 0.5) is (2x + 1, 2y + 1), a vertex (x, y) is (2x, 2y).

\* Even-odd ray casting.  The source's test
\*   x < (xj - xi) * (y - yi) / (yj - yi) + xi
\* is cleared of its division (the sign of yj - yi decides the direction).
isPointInPolygon(x2, y2, polygon) ==
  LET n == Len(polygon)
      crosses(i) ==
        LET j == IF i = 1 THEN n ELSE i - 1
            xi == polygon[i].x
            yi == polygon[i].y
            xj == polygon[j].x
            yj == polygon[j].y
            lhs == (x2 - 2 * xi) * (yj - yi)
            rhs == (xj - xi) * (y2 - 2 * yi)
        IN /\ (2 * yi > y2) /= (2 * yj > y2)
           /\ IF yj - yi > 0 THEN lhs < rhs ELSE lhs > rhs
  IN Cardinality({i \in 1..n : crosses(i)}) % 2 = 1

\* a1, a2, b1, b2 are <<x, y>> pairs.
linesIntersect(a1, a2, b1, b2) ==
  LET det(a, b) == a[1] * b[2] - a[2] * b[1]
      delta == <<a2[1] - a1[1], a2[2] - a1[2]>>
      delta1 == <<b1[1] - a1[1], b1[2] - a1[2]>>
      delta2 == <<b2[1] - a1[1], b2[2] - a1[2]>>
      d == det(delta, delta1)
      d1 == det(delta, delta2)
      delta3 == <<b2[1] - b1[1], b2[2] - b1[2]>>
      delta4 == <<a1[1] - b1[1], a1[2] - b1[2]>>
      delta5 == <<a2[1] - b1[1], a2[2] - b1[2]>>
      d2 == det(delta3, delta4)
      d3 == det(delta3, delta5)
  IN IF d * d1 > 0 THEN FALSE
     ELSE IF d2 * d3 > 0 THEN FALSE
     ELSE TRUE

\* rect2 = [left, right, top, bottom], doubled.
lineIntersectsRect(lineStart2, lineEnd2, rect2) ==
  IF \/ Max(lineStart2[1], lineEnd2[1]) < rect2.left
     \/ Min(lineStart2[1], lineEnd2[1]) > rect2.right
     \/ Max(lineStart2[2], lineEnd2[2]) < rect2.top
     \/ Min(lineStart2[2], lineEnd2[2]) > rect2.bottom
  THEN FALSE
  ELSE LET edges == <<
             <<<<rect2.left, rect2.top>>, <<rect2.right, rect2.top>>>>,
             <<<<rect2.right, rect2.top>>, <<rect2.right, rect2.bottom>>>>,
             <<<<rect2.right, rect2.bottom>>, <<rect2.left, rect2.bottom>>>>,
             <<<<rect2.left, rect2.bottom>>, <<rect2.left, rect2.top>>>> >>
       IN \E e \in 1..4 : linesIntersect(lineStart2, lineEnd2, edges[e][1], edges[e][2])

\* Only the centre of the cell is tested.
isCellIntersectingPolygon_CentreOnly(x, y, polygon) ==
  isPointInPolygon(2 * x + 1, 2 * y + 1, polygon)

\* The cell rectangle the source tests is {x, y, width: 0.5, height: 0.5}.
isCellIntersectingPolygon(x, y, polygon) ==
  \/ isPointInPolygon(2 * x + 1, 2 * y + 1, polygon)
  \/ LET cellRect2 == [left |-> 2 * x, right |-> 2 * x + 1,
                       top |-> 2 * y, bottom |-> 2 * y + 1]
         n == Len(polygon)
     IN \E i \in 1..n :
          LET j == (i % n) + 1 IN
            lineIntersectsRect(<<2 * polygon[i].x, 2 * polygon[i].y>>,
                               <<2 * polygon[j].x, 2 * polygon[j].y>>, cellRect2)

\* The nested y / x loops of closeShape, in row-major order.
cellsInShape(polygon, r, c) ==
  LET all == [k \in 1..(r * c) |-> [x |-> (k - 1) % c, y |-> (k - 1) \div c]]
      hit(cell) == isCellIntersectingPolygon(cell.x, cell.y, polygon)
  IN SelectSeq(all, hit)

\* Two vertices are enough to rasterize.
closeShape_TwoVertices(s, v) ==
  LET s0 == [s EXCEPT !.closed = Append(s.closed, [view |-> v, nodes |-> s.shapeNodes[v],
                                                  caller |-> "handleKeyDown"])]
  IN IF Len(s0.shapeNodes[v]) < 2 THEN clearShape(s0, v)
     ELSE LET cells == cellsInShape(s0.shapeNodes[v], s0.rows[v], s0.cols[v])
          IN clearShape(IF Len(cells) > 0
                        THEN Tagged(handleMaskUpdates(s0, v, cells),
                                    [kind |-> "polygon", nodes |-> s0.shapeNodes[v]])
                        ELSE s0, v)

\* Observation only: the call is recorded with the vertices it found and its
\* caller (handleKeyDown unless addShapeNode says otherwise).
closeShape(s, v) ==
  LET s0 == [s EXCEPT !.closed = Append(s.closed, [view |-> v, nodes |-> s.shapeNodes[v],
                                                  caller |-> "handleKeyDown"])]
  IN IF Len(s0.shapeNodes[v]) < 3 THEN clearShape(s0, v)
     ELSE LET cells == cellsInShape(s0.shapeNodes[v], s0.rows[v], s0.cols[v])
          IN clearShape(IF Len(cells) > 0
                        THEN Tagged(handleMaskUpdates(s0, v, cells),
                                    [kind |-> "polygon", nodes |-> s0.shapeNodes[v]])
                        ELSE s0, v)

\* The closing click is appended before the shape is closed.
addShapeNode_RepeatsFirst(s, v, cell) ==
  IF Len(s.shapeNodes[v]) > 0 /\ s.shapeNodes[v][1] = cell
  THEN [closeShape([s EXCEPT !.shapeNodes[v] = Append(s.shapeNodes[v], cell)], v)
          EXCEPT !.closed[Len(s.closed) + 1].caller = "addShapeNode"]
  ELSE [s EXCEPT !.shapeNodes[v] = Append(s.shapeNodes[v], cell)]

addShapeNode(s, v, cell) ==
  IF Len(s.shapeNodes[v]) > 0 /\ s.shapeNodes[v][1] = cell
  THEN [closeShape(s, v) EXCEPT !.closed[Len(s.closed) + 1].caller = "addShapeNode"]
  ELSE [s EXCEPT !.shapeNodes[v] = Append(s.shapeNodes[v], cell)]

\* ---------------------------------------- Heatmap.vue: device-to-grid map
\* Numbers that need not be integers (pixels, the scale, half offsets) are
\* exact fractions <<numerator, denominator>> with a positive denominator.
Rat(n) == <<n, 1>>

RatSub(a, b) == <<a[1] * b[2] - b[1] * a[2], a[2] * b[2]>>

\* b is not zero.
RatDiv(a, b) ==
  IF b[1] > 0 THEN <<a[1] * b[2], a[2] * b[1]>>
  ELSE <<-(a[1] * b[2]), -(a[2] * b[1])>>

\* Math.floor
RatFloor(a) == a[1] \div a[2]

RatAdd(a, b) == <<a[1] * b[2] + b[1] * a[2], a[2] * b[2]>>

RatMul(a, b) == <<a[1] * b[1], a[2] * b[2]>>

RatLess(a, b) == a[1] * b[2] < b[1] * a[2]

\* Math.min / Math.max
RatMin(a, b) == IF RatLess(b, a) THEN b ELSE a

RatMax(a, b) == IF RatLess(a, b) THEN b ELSE a

\* Math.round: the nearest integer, a half rounded up.
RatRound(a) == (2 * a[1] + a[2]) \div (2 * a[2])

RECURSIVE GCD(_, _)
GCD(a, b) == IF b = 0 THEN a ELSE GCD(b, a % b)

\* One representation per number, so that === is =.
RatNorm(a) ==
  LET g == GCD(IF a[1] < 0 THEN -a[1] ELSE a[1], a[2])
  IN <<a[1] \div g, a[2] \div g>>

squareSize == 6

\* The cell is computed from the position in the container, without the
\* centring offset.
getCellAt_NoOffset(event, rect, zoomTransform, r, c) ==
  LET mouseX == RatSub(Rat(event.clientX), Rat(rect.left))
      mouseY == RatSub(Rat(event.clientY), Rat(rect.top))
      dataX == RatDiv(RatSub(mouseX, Rat(zoomTransform.x)), zoomTransform.k)
      dataY == RatDiv(RatSub(mouseY, Rat(zoomTransform.y)), zoomTransform.k)
      cellX == RatFloor(RatDiv(dataX, Rat(squareSize)))
      cellY == RatFloor(RatDiv(dataY, Rat(squareSize)))
  IN IF cellX >= 0 /\ cellX < c /\ cellY >= 0 /\ cellY < r
     THEN [x |-> cellX, y |-> cellY]
     ELSE Null

\* getCellFromMousePosition as a function of what it reads: the event, the
\* container's bounding rect, the zoom zoomTransform and the grid's dimensions.
getCellAt(event, rect, zoomTransform, r, c) ==
  LET mouseX == RatSub(Rat(event.clientX), Rat(rect.left))
      mouseY == RatSub(Rat(event.clientY), Rat(rect.top))
      dataX == RatDiv(RatSub(mouseX, Rat(zoomTransform.x)), zoomTransform.k)
      dataY == RatDiv(RatSub(mouseY, Rat(zoomTransform.y)), zoomTransform.k)
      totalDataWidth == c * squareSize
      totalDataHeight == r * squareSize
      offsetX == RatDiv(Rat(rect.width - totalDataWidth), Rat(2))
      offsetY == RatDiv(Rat(rect.height - totalDataHeight), Rat(2))
      cellX == RatFloor(RatDiv(RatSub(dataX, offsetX), Rat(squareSize)))
      cellY == RatFloor(RatDiv(RatSub(dataY, offsetY), Rat(squareSize)))
  IN IF cellX >= 0 /\ cellX < c /\ cellY >= 0 /\ cellY < r
     THEN [x |-> cellX, y |-> cellY]
     ELSE Null

\* ------------------------------------------------- Heatmap.vue: listeners
EditMode(s) == s.mode = "mask" \/ s.mode = "erase"

\* createHeatmap registers the document listeners only when the view has data.
hasListeners(s, v) == s.rows[v] > 0

\* Without the test against the matrix dimensions: a pointer on the view's
\* svg beside the grid gives the column after the last.
getCellFromMousePosition_Unbounded(s, v, event) ==
  IF event.cellAt[v] = Null /\ event.over = v
  THEN [x |-> s.cols[v], y |-> 0] ELSE event.cellAt[v]

\* A pointer event carries, for each view, the cell that view's
\* getCellFromMousePosition computes from the pointer position (Null: none).
getCellFromMousePosition(s, v, event) == event.cellAt[v]

handleKeyDown(s, v, event) ==
  LET s1 == IF event.key = "Shift" THEN [s EXCEPT !.isShiftPressed[v] = TRUE] ELSE s
      s2 == IF event.key = "Control" \/ event.key = "Meta"
            THEN [s1 EXCEPT !.isCtrlPressed[v] = TRUE] ELSE s1
  IN IF s2.tool = "shape" /\ EditMode(s2)
     THEN IF event.key = "Escape" THEN clearShape(s2, v)
          ELSE IF event.key = "Enter" THEN closeShape(s2, v)
          ELSE s2
     ELSE s2

handleKeyUp(s, v, event) ==
  LET s1 == IF event.key = "Shift"
            THEN [s EXCEPT !.isShiftPressed[v] = FALSE, !.lastMaskedCell[v] = Null]
            ELSE s
  IN IF event.key = "Control" \/ event.key = "Meta"
     THEN [s1 EXCEPT !.isCtrlPressed[v] = FALSE] ELSE s1

handleMouseDown(s, v, event) ==
  IF event.button = 0
  THEN LET s1 == [s EXCEPT !.isMousePressed[v] = TRUE, !.lastMaskedCell[v] = Null]
           cell == getCellFromMousePosition(s1, v, event)
       IN IF s1.tool = "select" /\ EditMode(s1) /\ cell /= Null
          THEN [s1 EXCEPT !.isSelecting[v] = TRUE,
                          !.selectionStart[v] = cell,
                          !.selectionEnd[v] = cell,
                          !.selectionRect[v] = TRUE]
          ELSE s1
  ELSE s

handleMouseUp(s, v, event) ==
  IF event.button = 0
  THEN LET s1 == [s EXCEPT !.isMousePressed[v] = FALSE, !.lastMaskedCell[v] = Null]
           cell == getCellFromMousePosition(s1, v, event)
       IN IF s1.isSelecting[v] /\ s1.tool = "select"
          THEN handleSelectionComplete(
                 IF cell /= Null THEN [s1 EXCEPT !.selectionEnd[v] = cell] ELSE s1, v)
          ELSE s1
  ELSE s

\* The shift+drag branch without its test of the hand tool.
handleMouseMove_NoHandTest(s, v, event) ==
  LET cell == event.cellAt[v] IN
  IF s.isSelecting[v] /\ s.tool = "select"
  THEN IF cell /= Null THEN [s EXCEPT !.selectionEnd[v] = cell] ELSE s
  ELSE IF /\ s.isShiftPressed[v] /\ s.isMousePressed[v]
          /\ (s.mode = "mask" \/ s.mode = "erase")
          /\ ~s.isCtrlPressed[v]
       THEN IF cell /= Null /\ (s.lastMaskedCell[v] = Null \/ cell /= s.lastMaskedCell[v])
            THEN [handleMaskUpdates(s, v, <<cell>>) EXCEPT !.lastMaskedCell[v] = cell]
            ELSE s
       ELSE s

\* The shift+drag branch without its comparison with lastMaskedCell.
handleMouseMove_NoLastCell(s, v, event) ==
  LET cell == event.cellAt[v] IN
  IF s.isSelecting[v] /\ s.tool = "select"
  THEN IF cell /= Null THEN [s EXCEPT !.selectionEnd[v] = cell] ELSE s
  ELSE IF /\ s.isShiftPressed[v] /\ s.isMousePressed[v]
          /\ (s.mode = "mask" \/ s.mode = "erase")
          /\ ~s.isCtrlPressed[v] /\ s.tool /= "hand"
       THEN IF cell /= Null
            THEN [handleMaskUpdates(s, v, <<cell>>) EXCEPT !.lastMaskedCell[v] = cell]
            ELSE s
       ELSE s

handleMouseMove(s, v, event) ==
  LET cell == getCellFromMousePosition(s, v, event) IN
  IF s.isSelecting[v] /\ s.tool = "select"
  THEN IF cell /= Null THEN [s EXCEPT !.selectionEnd[v] = cell] ELSE s
  ELSE IF /\ s.isShiftPressed[v] /\ s.isMousePressed[v] /\ EditMode(s)
          /\ ~s.isCtrlPressed[v] /\ s.tool /= "hand"
       THEN IF cell /= Null /\ (s.lastMaskedCell[v] = Null \/ cell /= s.lastMaskedCell[v])
            THEN [handleMaskUpdate(s, v, cell) EXCEPT !.lastMaskedCell[v] = cell]
            ELSE s
       ELSE s

\* The mousedown listener of a heatmap-cell rect; d is the cell's datum.
cellMouseDown(s, v, d) ==
  LET s1 == IF EditMode(s) /\ ~s.isCtrlPressed[v] /\ s.tool = "point"
            THEN handleMaskUpdate(s, v, d) ELSE s
  IN IF EditMode(s1) /\ ~s1.isCtrlPressed[v] /\ s1.tool = "shape"
     THEN addShapeNode(s1, v, d) ELSE s1

\* ------------------------------------------------ Heatmap.vue: pan and zoom
\* Only the hand tool passes the filter.
zoomFilter_HandOnly(s, event) == s.tool = "hand"

\* The filter of the zoom behaviour, asked for a mousedown and for every wheel
\* event.  event.ctrlKey stands for event.ctrlKey || event.metaKey: the code
\* reads the two modifiers together everywhere.
zoomFilter(s, event) == s.tool = "hand" \/ event.ctrlKey

zoomIdentity == [k |-> Rat(1), x |-> Rat(0), y |-> Rat(0)]

\* scaleExtent([0.1, 10])
scaleExtent == <<<<1, 10>>, <<10, 1>>>>

\* App.vue's updateTransform, the listener of update:transform.
updateTransform(s, newTransform) == [s EXCEPT !.transform = newTransform]

\* The "zoom" listener of view v: the view's transform is drawn and emitted.
zoomed(s, v) == updateTransform(s, s.viewTransform[v])

\* The view's transform is left as it is and the application's is emitted.
viewUpdateTransform_NotStored(s, v) ==
  IF s.rows[v] > 0 THEN updateTransform(s, s.transform) ELSE s

\* updateTransform of view v: zoom.transform hands props.state.transform to
\* the view's zoom behaviour, which stores it as it is (no scale extent is
\* applied) and fires "zoom"; nothing when the view has no svg.
viewUpdateTransform(s, v) ==
  IF s.rows[v] > 0 THEN zoomed([s EXCEPT !.viewTransform[v] = s.transform], v) ELSE s

\* The watchers of props.state.transform, run again for as long as a run
\* changed state.transform; seen is the value the last run was triggered by.
RECURSIVE watchTransform(_, _)
watchTransform(seen, s) ==
  IF s.transform = seen THEN s
  ELSE watchTransform(s.transform, viewUpdateTransform(viewUpdateTransform(s, 1), 2))

\* Vue's pre-flush with the watchers of the transform.
FlushTransform(old, s) == watchTransform(old.transform, s)

\* The wheel listener of the zoom behaviour without the scale extent.
wheeled_NoExtent(s, event) ==
  LET v == event.over
      t == s.viewTransform[v]
      k == RatNorm(RatMul(t.k, event.factor))
      p0 == event.pointer
      p1 == <<RatDiv(RatSub(Rat(p0[1]), t.x), t.k), RatDiv(RatSub(Rat(p0[2]), t.y), t.k)>>
  IN IF event.over = 0 \/ ~zoomFilter(s, event) \/ k = t.k THEN s
     ELSE zoomed([s EXCEPT !.viewTransform[v] =
            [k |-> k,
             x |-> RatNorm(RatSub(Rat(p0[1]), RatMul(p1[1], k))),
             y |-> RatNorm(RatSub(Rat(p0[2]), RatMul(p1[2], k)))]], v)

\* The wheel listener of the zoom behaviour of view event.over: the view's
\* scale is multiplied by event.factor (2 to the power of the wheel delta),
\* kept within the scale extent, about the point under the pointer; nothing
\* when the scale stays.
wheeled(s, event) ==
  LET v == event.over
      t == s.viewTransform[v]
      k == RatMax(scaleExtent[1],
                  RatMin(scaleExtent[2], RatNorm(RatMul(t.k, event.factor))))
      p0 == event.pointer
      p1 == <<RatDiv(RatSub(Rat(p0[1]), t.x), t.k), RatDiv(RatSub(Rat(p0[2]), t.y), t.k)>>
  IN IF event.over = 0 \/ ~zoomFilter(s, event) \/ k = t.k THEN s
     ELSE zoomed([s EXCEPT !.viewTransform[v] =
            [k |-> k,
             x |-> RatNorm(RatSub(Rat(p0[1]), RatMul(p1[1], k))),
             y |-> RatNorm(RatSub(Rat(p0[2]), RatMul(p1[2], k)))]], v)

\* The mousemove listener of the mouse gesture of view s.gestureView: the
\* point grabbed at mousedown follows the pointer, which moved by
\* event.movement since the last event.
mousemoved(s, event) ==
  LET v == s.gestureView
      t == s.viewTransform[v]
  IN zoomed([s EXCEPT !.viewTransform[v] =
       [k |-> t.k,
        x |-> RatNorm(RatAdd(t.x, Rat(event.movement[1]))),
        y |-> RatNorm(RatAdd(t.y, Rat(event.movement[2])))]], v)

\* ------------------------------------------------------ App.vue: listeners
\* event.code is [prefix, suffix]: the part startsWith matches and the rest.
getDigit(code) ==
  IF code.prefix = "Digit" THEN StringToNumber(code.suffix)
  ELSE IF code.prefix = "Numpad" /\ Len(code.suffix) > 0 /\ IsDigit(code.suffix[1])
       THEN StringToNumber(code.suffix)
       ELSE NaN

tools == <<"hand", "point", "select", "shape">>

\* The digit indexes the tools from 0.
AppKeyDown_IndexFromZero(s, event) ==
  LET digit == getDigit(event.code)
      s1 == IF digit /= NaN /\ digit < Len(tools)
            THEN [s EXCEPT !.tool = tools[digit + 1]] ELSE s
  IN IF event.key = "a" \/ event.key = "A" THEN [s1 EXCEPT !.mode = "mask"]
     ELSE IF event.key = "z" \/ event.key = "Z" THEN [s1 EXCEPT !.mode = "erase"]
     ELSE IF event.key = "e" \/ event.key = "E" THEN [s1 EXCEPT !.mode = "view"]
     ELSE s1

\* The keydown listener of onMounted; a digit of 0, NaN or null is falsy.
AppKeyDown(s, event) ==
  LET digit == getDigit(event.code)
      s1 == IF digit /= 0 /\ digit /= NaN /\ digit - 1 < Len(tools)
            THEN [s EXCEPT !.tool = tools[digit]] ELSE s
  IN IF event.key = "a" \/ event.key = "A" THEN [s1 EXCEPT !.mode = "mask"]
     ELSE IF event.key = "z" \/ event.key = "Z" THEN [s1 EXCEPT !.mode = "erase"]
     ELSE IF event.key = "e" \/ event.key = "E" THEN [s1 EXCEPT !.mode = "view"]
     ELSE s1

\* ------------------------------------------------------- App.vue: uploads
\* A picked file is what its FileReader and parser will make of it: outcome
\* "ok" with the parsed matrix (rows x cols, or maskData), "readError"
\* (reader.onerror) or "parseError" (the parser throws).
Without(seq, i) == SubSeq(seq, 1, i - 1) \o SubSeq(seq, i + 1, Len(seq))

\* The message of the Error the parse promise is rejected with.
RejectionMessage(kind, outcome) ==
  IF kind = "data"
  THEN IF outcome = "readError" THEN "Failed to read file." ELSE "Failed to parse CSV."
  ELSE IF outcome = "readError" THEN "Failed to read mask file."
       ELSE "Failed to parse mask CSV."

\* handleFileUpload up to its first await.
handleFileUpload(s, files) ==
  IF Len(files) = 0 THEN s
  ELSE IF Len(files) > 2
       THEN [s EXCEPT !.error = "Please select a maximum of 2 files."]
       ELSE [s EXCEPT !.error = "",
                      !.uploads = Append(@, [kind |-> "data", files |-> files, parsed |-> 0])]

\* handleMaskFileUpload up to its await.
handleMaskFileUploadStart(s, files) ==
  IF Len(files) = 0 THEN s
  ELSE IF Len(files) > 1
       THEN [s EXCEPT !.error = "Please select only one mask file."]
       ELSE [s EXCEPT !.error = "",
                      !.uploads = Append(@, [kind |-> "mask", files |-> files, parsed |-> 0])]

\* createHeatmap of view v, run by the watcher of props.data: a new svg whose
\* cell rects are filled from getSquareColor and whose zoom behaviour is
\* given props.state.transform; nothing without data.
createHeatmap(s, v) ==
  IF s.rows[v] > 0
  THEN viewUpdateTransform(
         [s EXCEPT !.painted[v] = updateColors(s.localMask[v], s.rows[v], s.cols[v])], v)
  ELSE s

\* The assignments of handleFileUpload once every file is parsed.
assignData(s, files) ==
  IF Len(files) = 2
  THEN createHeatmap(createHeatmap(
         [s EXCEPT !.rows = <<files[1].rows, files[2].rows>>,
                   !.cols = <<files[1].cols, files[2].cols>>,
                   !.filename = <<files[1].name, files[2].name>>], 1), 2)
  ELSE IF s.rows[1] = 0
       THEN createHeatmap(
              [s EXCEPT !.rows[1] = files[1].rows, !.cols[1] = files[1].cols,
                        !.filename[1] = files[1].name], 1)
       ELSE IF s.rows[2] = 0
            THEN createHeatmap(
                   [s EXCEPT !.rows[2] = files[1].rows, !.cols[2] = files[1].cols,
                             !.filename[2] = files[1].name], 2)
            ELSE createHeatmap(
                   [s EXCEPT !.rows = <<files[1].rows, 0>>,
                             !.cols = <<files[1].cols, 0>>,
                             !.filename = <<files[1].name, "">>], 1)

\* handleMaskFileUpload once the file is parsed: the mask Set is replaced.
handleMaskFileUpload(s, maskData) ==
  [s EXCEPT !.mask = arrayToSet(maskData), !.maskTriggered = TRUE]

\* The first matrix is assigned as soon as it is parsed.
resumeUpload_AssignsEarly(s, i) ==
  LET u == s.uploads[i]
      file == u.files[u.parsed + 1]
      rest == [s EXCEPT !.uploads = Without(@, i)]
  IN IF file.outcome /= "ok"
     THEN [rest EXCEPT !.error = RejectionMessage(u.kind, file.outcome)]
     ELSE IF u.kind = "mask" THEN handleMaskFileUpload(rest, file.maskData)
     ELSE IF u.parsed + 1 < Len(u.files)
          THEN [s EXCEPT !.uploads[i].parsed = @ + 1,
                         !.rows[1] = file.rows, !.cols[1] = file.cols,
                         !.filename[1] = file.name]
          ELSE assignData(rest, u.files)

\* The suspended handler i goes on after its await: the rejection is caught
\* and becomes the error message; the parsed file is the last one and the
\* assignments are made, or the next file is awaited.
resumeUpload(s, i) ==
  LET u == s.uploads[i]
      file == u.files[u.parsed + 1]
      rest == [s EXCEPT !.uploads = Without(@, i)]
  IN IF file.outcome /= "ok"
     THEN [rest EXCEPT !.error = RejectionMessage(u.kind, file.outcome)]
     ELSE IF u.kind = "mask" THEN handleMaskFileUpload(rest, file.maskData)
     ELSE IF u.parsed + 1 < Len(u.files)
          THEN [s EXCEPT !.uploads[i].parsed = @ + 1]
          ELSE assignData(rest, u.files)

hasData(s) == s.rows[1] > 0 \/ s.rows[2] > 0

zoomPercentage(s) == RatRound(RatMul(s.transform.k, Rat(100)))

\* The pan position is kept, the scale becomes newZoomPercentage / 100.
updateZoom(s, newZoomPercentage) ==
  [s EXCEPT !.transform = [k |-> RatNorm(<<newZoomPercentage, 100>>),
                           x |-> s.transform.x, y |-> s.transform.y]]

\* ZoomControl: the buttons and the slider emit update:zoomPercentage.
zoomIn(s) == updateZoom(s, Min(1000, zoomPercentage(s) + 10))

\* The step down without its lower limit.
zoomOut_NoFloor(s) == updateZoom(s, zoomPercentage(s) - 10)

zoomOut(s) == updateZoom(s, Max(10, zoomPercentage(s) - 10))

\* newValue is the value of the range input.
updateSlider(s, newValue) == updateZoom(s, newValue)

\* ------------------------------------------------------------------ events
\* The listeners createHeatmap registers on the document, by event type.
Listener(type, s, v, event) ==
  CASE type = "keydown" -> handleKeyDown(s, v, event)
    [] type = "keyup" -> handleKeyUp(s, v, event)
    [] type = "mousedown" -> handleMouseDown(s, v, event)
    [] type = "mouseup" -> handleMouseUp(s, v, event)
    [] type = "mousemove" -> handleMouseMove(s, v, event)

\* The listener of each view that listens, in registration order, each
\* followed by the flush of the watchers.
PerView(s, type, event) ==
  LET a == IF hasListeners(s, 1) THEN Flush(s, Listener(type, s, 1, event)) ELSE s
  IN IF hasListeners(a, 2) THEN Flush(a, Listener(type, a, 2, event)) ELSE a

Keys == {"Shift", "Control", "Escape", "Enter", "a", "z", "e", "x"}

KeyEvents ==
  {[key |-> k, code |-> [prefix |-> "Key", suffix |-> <<>>]] : k \in Keys}
  \cup {[key |-> Digits[d + 1], code |-> [prefix |-> "Digit", suffix |-> <<Digits[d + 1]>>]] :
          d \in 0..5}
  \cup {[key |-> "2", code |-> [prefix |-> "Numpad", suffix |-> <<"2">>]]}

\* Pointer positions.  over: the view whose svg is under the pointer (0:
\* none); onRect: the pointer is on a heatmap-cell rect of that view; cell:
\* the cell that view's getCellFromMousePosition computes (Null: none).  Each
\* grid is taken to fit its container, so the other view computes no cell.
\* Between two rects (the 0.5 px gap) a cell is computed but no rect is hit.
PointerPositions ==
  {[over |-> 0, onRect |-> FALSE, cell |-> Null]}
  \cup {[over |-> v, onRect |-> FALSE, cell |-> Null] : v \in {w \in Views : rows[w] > 0}}
  \cup UNION {{[over |-> v, onRect |-> b, cell |-> c] :
                 b \in BOOLEAN, c \in GridCells(rows[v], cols[v])} : v \in Views}

PointerEvents ==
  {[button |-> b, over |-> p.over, onRect |-> p.onRect, ctrlKey |-> ctrlKey,
    cellAt |-> [v \in Views |-> IF v = p.over THEN p.cell ELSE Null],
    movement |-> <<0, 0>>] :
     b \in {0, 2}, p \in PointerPositions}

\* mousemove: the button and the rect under the pointer are not read.
MoveEvents == {ev \in PointerEvents : ev.button = 0 /\ ~ev.onRect}

\* mouseup of the primary button: the rect under the pointer is not read.
UpEvents == {ev \in PointerEvents : ev.button = 0 /\ ~ev.onRect}

\* The state after all the keydown listeners: App.vue's, then each view's.
AfterKeyDown(event) ==
  LET s0 == [Cur EXCEPT !.ctrlKey = IF event.key = "Control" THEN TRUE ELSE @]
      s1 == Flush(s0, AppKeyDown(s0, event))
  IN PerView(s1, "keydown", event)

KeyDown(event) == Becomes(AfterKeyDown(event))

AfterKeyUp(event) ==
  LET s0 == [Cur EXCEPT !.ctrlKey = IF event.key = "Control" THEN FALSE ELSE @]
  IN PerView(s0, "keyup", event)

KeyUp(event) == Becomes(AfterKeyUp(event))

\* The rect's listener runs first; the svg's zoom listener stops the event
\* when its filter accepts it, so that the document listeners do not run.
AfterMouseDown(event) ==
  LET s1 == IF event.onRect
            THEN Flush(Cur, cellMouseDown(Cur, event.over, event.cellAt[event.over]))
            ELSE Cur
  IN IF event.over /= 0 /\ zoomFilter(s1, event)
     THEN [s1 EXCEPT !.zoomGesture = TRUE, !.gestureView = event.over]
     ELSE PerView(s1, "mousedown", event)

MouseDown(event) ==
  /\ \A v \in Views : Len(AfterMouseDown(event).shapeNodes[v]) <= MaxNodes
  /\ Becomes(AfterMouseDown(event))

\* During a zoom gesture the window's capturing zoom listeners stop mousemove
\* and mouseup before they reach the document.
AfterMouseMove(event) ==
  IF zoomGesture THEN FlushTransform(Cur, mousemoved(Cur, event))
  ELSE PerView(Cur, "mousemove", event)

InPanRange(t) ==
  /\ ~RatLess(t.x, Rat(-MaxPan)) /\ ~RatLess(Rat(MaxPan), t.x)
  /\ ~RatLess(t.y, Rat(-MaxPan)) /\ ~RatLess(Rat(MaxPan), t.y)

MouseMove(event) ==
  /\ InPanRange(AfterMouseMove(event).transform)
  /\ Becomes(AfterMouseMove(event))

AfterMouseUp(event) ==
  IF zoomGesture THEN [Cur EXCEPT !.zoomGesture = FALSE, !.gestureView = 0]
  ELSE PerView(Cur, "mouseup", event)

MouseUp(event) == Becomes(AfterMouseUp(event))

\* The toolbar: ToolButton and the mode select write state.tool / state.mode.
AfterSetTool(t) == Flush(Cur, [Cur EXCEPT !.tool = t])

SetTool(t) == Becomes(AfterSetTool(t))

AfterSetMode(m) == Flush(Cur, [Cur EXCEPT !.mode = m])

SetMode(m) == Becomes(AfterSetMode(m))

\* The files of the data input (multiple) and of the mask input.
DataFiles ==
  {[name |-> "a", outcome |-> "ok", rows |-> 1, cols |-> 1]}
  \cup {[name |-> "b", outcome |-> o, rows |-> IF o = "ok" THEN 1 ELSE 0,
         cols |-> IF o = "ok" THEN 2 ELSE 0] : o \in {"ok", "readError", "parseError"}}

DataFileLists ==
  {<<>>} \cup {<<f>> : f \in DataFiles} \cup {<<f, g>> : f, g \in DataFiles}
  \cup {<<f, f, g>> : f, g \in DataFiles}

PickedMaskFiles ==
  {[outcome |-> "ok", maskData |-> <<<<b>>>>] : b \in BOOLEAN}
  \cup {[outcome |-> o, maskData |-> <<>>] : o \in {"readError", "parseError"}}

MaskFileLists ==
  {<<>>} \cup {<<f>> : f \in PickedMaskFiles} \cup {<<f, g>> : f, g \in PickedMaskFiles}

AfterPickData(files) == handleFileUpload(Cur, files)

PickData(files) ==
  /\ Len(AfterPickData(files).uploads) <= MaxUploads
  /\ Becomes(AfterPickData(files))

AfterPickMask(files) == handleMaskFileUploadStart(Cur, files)

PickMask(files) ==
  /\ Len(AfterPickMask(files).uploads) <= MaxUploads
  /\ Becomes(AfterPickMask(files))

\* A FileReader fires: the handler that awaits it goes on, and the watchers
\* of what it assigned run.
AfterFileRead(i) == Flush(Cur, resumeUpload(Cur, i))

FileRead(i) == Becomes(AfterFileRead(i))

\* Wheel events over a view or outside the views.  factor: 2 to the power
\* of the wheel delta; the pointer is where the grid's origin is drawn.
WheelFactors == {<<1, 4>>, <<4, 1>>}

WheelEvents ==
  {[over |-> v, ctrlKey |-> ctrlKey, factor |-> f,
    pointer |-> <<RatFloor(transform.x), RatFloor(transform.y)>>] :
     v \in {0} \cup {w \in Views : rows[w] > 0}, f \in WheelFactors}

AfterWheel(event) == FlushTransform(Cur, wheeled(Cur, event))

Wheel(event) == Becomes(AfterWheel(event))

\* mousemove events that carry a displacement of the pointer.
PanSteps == {<<1, 0>>, <<-1, 0>>}

PanEvents == {[ev EXCEPT !.movement = m] : ev \in MoveEvents, m \in PanSteps}

\* ZoomControl is rendered when a data file is loaded.
AfterZoomIn == FlushTransform(Cur, zoomIn(Cur))

ZoomIn == hasData(Cur) /\ Becomes(AfterZoomIn)

AfterZoomOut == FlushTransform(Cur, zoomOut(Cur))

ZoomOut == hasData(Cur) /\ Becomes(AfterZoomOut)

\* The values of the range input: min 10, max 1000, step 1.
SliderValues == {10, 15, 1000}

AfterUpdateSlider(newValue) == FlushTransform(Cur, updateSlider(Cur, newValue))

UpdateSlider(newValue) == hasData(Cur) /\ Becomes(AfterUpdateSlider(newValue))

MaskFiles ==
  UNION {[1..r -> [1..c -> BOOLEAN]] : <<r, c>> \in (1..MaxFileRows) \X (1..MaxFileCols)}

\* The mask files with a masked cell.
MaskedFiles == {maskData \in MaskFiles : arrayToSet(maskData) /= {}}

AfterLoadMask(maskData) == Flush(Cur, handleMaskFileUpload(Cur, maskData))

LoadMask(maskData) == Becomes(AfterLoadMask(maskData))

\* AdvancedPanel.vue's Clear Mask button emits clear:mask.  App.vue renders
\* <AdvancedPanel v-model="settings" /> with no listener of clear:mask, so
\* the click runs no handler.
clearMaskClicked(s) == s

AfterClearMask == Flush(Cur, clearMaskClicked(Cur))

ClearMask == Becomes(AfterClearMask)

\* ----------------------------------------------------------- specification
\* The state once the two data files are loaded and both views are mounted.
InitWith(dataRows, dataCols, initialMode, initialTool) ==
  /\ mask = {}
  /\ mode = initialMode
  /\ tool = initialTool
  /\ ctrlKey = FALSE
  /\ zoomGesture = FALSE
  /\ transform = zoomIdentity
  /\ gestureView = 0
  /\ viewTransform = [v \in Views |-> zoomIdentity]
  /\ filename = [v \in Views |-> IF dataRows[v] > 0 THEN "a" ELSE ""]
  /\ error = ""
  /\ uploads = <<>>
  /\ rows = dataRows
  /\ cols = dataCols
  /\ localMask = [v \in Views |-> {}]
  /\ painted = [v \in Views |-> {}]
  /\ isShiftPressed = [v \in Views |-> FALSE]
  /\ isCtrlPressed = [v \in Views |-> FALSE]
  /\ isMousePressed = [v \in Views |-> FALSE]
  /\ lastMaskedCell = [v \in Views |-> Null]
  /\ isSelecting = [v \in Views |-> FALSE]
  /\ selectionStart = [v \in Views |-> Null]
  /\ selectionEnd = [v \in Views |-> Null]
  /\ selectionRect = [v \in Views |-> FALSE]
  /\ shapeNodes = [v \in Views |-> <<>>]
  /\ committed = <<>>
  /\ emitted = <<>>
  /\ closed = <<>>

\* App.vue creates state as (mask, hand).
InitState == InitWith(<<LeftRows, RightRows>>, <<LeftCols, RightCols>>, "mask", "hand")

Init == InitState /\ probe = [stage |-> "none"]

Next ==
  \/ \E event \in KeyEvents : KeyDown(event)
  \/ \E event \in {e \in KeyEvents : e.key \in {"Shift", "Control"}} : KeyUp(event)
  \/ \E event \in PointerEvents : MouseDown(event)
  \/ \E event \in MoveEvents : MouseMove(event)
  \/ \E event \in UpEvents : MouseUp(event)
  \/ \E t \in {tools[k] : k \in 1..Len(tools)} : SetTool(t)
  \/ \E m \in {"mask", "erase", "view"} : SetMode(m)
  \/ \E maskData \in MaskedFiles : LoadMask(maskData)
  \/ ClearMask

Spec == Init /\ [][Next]_vars

\* =========================================================================
\* The helpers of lib/mask.ts applied on their own.
\* =========================================================================

\* ------------------------------------------------------ coordinate codec
\* Every coordinate is encoded, and the key is decoded again.
InitCodec ==
  /\ InitState
  /\ probe \in {[stage |-> "coord", i |-> i, j |-> j] : i \in 0..MaxCoord, j \in 0..MaxCoord}

Encode ==
  /\ probe.stage = "coord"
  /\ probe' = [stage |-> "key", i |-> probe.i, j |-> probe.j,
               key |-> coordToKey(probe.i, probe.j)]
  /\ UNCHANGED stateVars

Decode ==
  /\ probe.stage = "key"
  /\ probe' = [stage |-> "decoded", i |-> probe.i, j |-> probe.j,
               key |-> probe.key, coord |-> keyToCoord(probe.key)]
  /\ UNCHANGED stateVars

NextCodec == Encode \/ Decode

SpecCodec == InitCodec /\ [][NextCodec]_vars

\* C8: decoding the key of (i, j) gives back exactly (i, j), and no other
\* coordinate of the range has the same key.
C8_CodecBijection ==
  /\ probe.stage = "decoded" => probe.coord = <<probe.i, probe.j>>
  /\ probe.stage \in {"key", "decoded"} =>
       \A i2 \in 0..MaxCoord, j2 \in 0..MaxCoord :
         coordToKey(i2, j2) = probe.key => (i2 = probe.i /\ j2 = probe.j)

\* The key of (1, 23) was decoded; (12, 3) is in the range it is compared with.
C8_Witness ==
  /\ probe.stage = "decoded" /\ probe.i = 1 /\ probe.j = 23
  /\ probe.key = <<"1", ",", "2", "3">>
  /\ MaxCoord >= 12

\* ------------------------------------------------- dense matrix round trip
KeysOf(cells) == {coordToKey(c.y, c.x) : c \in cells}

InitDense ==
  /\ InitState
  /\ probe \in {[stage |-> "set", M |-> M, rows |-> r, cols |-> c] :
                  M \in {m \in SUBSET KeysOf(GridCells(DenseDim + 1, DenseDim + 1)) :
                           Cardinality(m) <= MaxMaskSize},
                  r \in 0..DenseDim, c \in 0..DenseDim}

ToArray ==
  /\ probe.stage = "set"
  /\ probe' = [stage |-> "array", M |-> probe.M, rows |-> probe.rows, cols |-> probe.cols,
               array |-> setToArray(probe.M, probe.rows, probe.cols)]
  /\ UNCHANGED stateVars

ToSet ==
  /\ probe.stage = "array"
  /\ probe' = [stage |-> "back", M |-> probe.M, rows |-> probe.rows, cols |-> probe.cols,
               array |-> probe.array, set |-> arrayToSet(probe.array)]
  /\ UNCHANGED stateVars

NextDense == ToArray \/ ToSet

SpecDense == InitDense /\ [][NextDense]_vars

\* C9: arrayToSet(setToArray(M, rows, cols)) is exactly the members of M
\* inside [0,rows) x [0,cols); the matrix has rows x cols entries.
C9_DenseRoundTrip ==
  /\ probe.stage \in {"array", "back"} =>
       /\ Len(probe.array) = probe.rows
       /\ \A i \in 1..probe.rows : Len(probe.array[i]) = probe.cols
  /\ probe.stage = "back" =>
       probe.set = {key \in probe.M :
                      \E i \in 0..(probe.rows - 1), j \in 0..(probe.cols - 1) :
                        key = coordToKey(i, j)}

\* A mask with a member inside and a member outside a non-square matrix went
\* through both conversions.
C9_Witness ==
  /\ probe.stage = "back" /\ probe.rows = 1 /\ probe.cols = 2
  /\ probe.M = {coordToKey(0, 1), coordToKey(1, 0)}
  /\ probe.set = {coordToKey(0, 1)}

\* ---------------------------------------- reconciliation of the local cache
StoreKeys == KeysOf(GridCells(StoreRows, StoreCols))

\* A is props.mask, B is the view's localMask.
InitReconcile ==
  /\ InitState
  /\ probe \in {[stage |-> "stale", A |-> A, B |-> B] :
                  A \in SUBSET StoreKeys, B \in SUBSET StoreKeys}

Reconcile ==
  /\ probe.stage = "stale"
  /\ LET r == watchMask(probe.B, probe.A)
     IN probe' = [stage |-> "reconciled", A |-> probe.A, B |-> probe.B,
                  toAdd |-> r.toAdd, toRemove |-> r.toRemove,
                  localMask |-> r.localMask]
  /\ UNCHANGED stateVars

NextReconcile == Reconcile

SpecReconcile == InitReconcile /\ [][NextReconcile]_vars

Batches(cells, n) == UNION {[1..k -> cells] : k \in 0..n}

InitStore ==
  /\ InitState
  /\ probe \in {[stage |-> "mask", M |-> M, S |-> S] :
                  M \in SUBSET StoreKeys,
                  S \in Batches(GridCells(StoreRows, StoreCols), MaxBatch)}

Add ==
  /\ probe.stage = "mask"
  /\ LET r == addMaskCoordinates(probe.M, probe.S)
     IN probe' = [stage |-> "added", M |-> probe.M, S |-> probe.S,
                  afterAdd |-> r.localMask, added |-> r.changed]
  /\ UNCHANGED stateVars

Remove ==
  /\ probe.stage = "added"
  /\ LET r == removeMaskCoordinates(probe.afterAdd, probe.S)
     IN probe' = [stage |-> "removed", M |-> probe.M, S |-> probe.S,
                  afterAdd |-> probe.afterAdd, added |-> probe.added,
                  afterRemove |-> r.localMask, removed |-> r.changed]
  /\ UNCHANGED stateVars

NextStore == Add \/ Remove

SpecStore == InitStore /\ [][NextStore]_vars

BatchKeys(S) == {coordToKey(S[k].y, S[k].x) : k \in 1..Len(S)}

\* C7 as stated: after add(S) then remove(S) every key of S has the
\* membership it had in M.
C7_AsStated ==
  probe.stage = "removed" =>
    \A key \in BatchKeys(probe.S) : (key \in probe.afterRemove) <=> (key \in probe.M)

\* C7 as amended: after add(S) then remove(S) every key of S is absent and
\* every other key keeps its membership, so the membership of M is restored
\* exactly for the keys of S that were not in M.
C7_AddThenRemove ==
  probe.stage = "removed" =>
    /\ probe.afterRemove = probe.M \ BatchKeys(probe.S)
    /\ \A key \in BatchKeys(probe.S) \ probe.M :
         (key \in probe.afterRemove) <=> (key \in probe.M)

\* A batch with one key of M and one key outside M was added and removed.
C7_Witness ==
  /\ probe.stage = "removed"
  /\ BatchKeys(probe.S) \cap probe.M /= {}
  /\ BatchKeys(probe.S) \ probe.M /= {}
  /\ probe.M \ BatchKeys(probe.S) /= {}

\* =========================================================================
\* The editing session.
\* =========================================================================
\* The step replaces the mask from a mask file.
IsLoadMask == \E maskData \in MaskFiles : LoadMask(maskData)

\* The batch b, as handed to handleMaskUpdate(s), changes some membership.
ChangesMembership(b) ==
  IF b.mode = "mask" THEN BatchKeys(b.coordinates) \ b.before /= {}
  ELSE IF b.mode = "erase" THEN BatchKeys(b.coordinates) \cap b.before /= {}
  ELSE FALSE

\* The keys whose membership the batch b changes.
ChangedKeys(b) ==
  IF b.mode = "mask" THEN BatchKeys(b.coordinates) \ b.before
  ELSE IF b.mode = "erase" THEN BatchKeys(b.coordinates) \cap b.before
  ELSE {}

NotifiedKeys(notifications) ==
  UNION {BatchKeys(notifications[n].values) : n \in 1..Len(notifications)}

\* C1: a step taken while the tool is hand emits no notification, changes no
\* membership in any batch, and changes the mask or a local mask only when it
\* is the load of a mask file.
C1_HandNeverEdits ==
  [][tool = "hand" =>
       /\ emitted' = <<>>
       /\ \A k \in 1..Len(committed') : committed'[k].after = committed'[k].before
       /\ (mask' /= mask \/ localMask' /= localMask) => IsLoadMask]_vars

\* The hand tool is active in an edit mode while shift and the primary button
\* are held over the document listeners (the tool was switched during a drag).
C1_Witness ==
  /\ tool = "hand" /\ mode = "mask" /\ ~zoomGesture
  /\ isShiftPressed[1] /\ isMousePressed[1] /\ ~isCtrlPressed[1]
  /\ coordToKey(0, 0) \notin mask

\* C2: a step taken while the mode is view emits no notification, changes no
\* membership in any batch, and changes the mask or a local mask only when it
\* is the load of a mask file.
C2_ViewNeverEdits ==
  [][mode = "view" =>
       /\ emitted' = <<>>
       /\ \A k \in 1..Len(committed') : committed'[k].after = committed'[k].before
       /\ (mask' /= mask \/ localMask' /= localMask) => IsLoadMask]_vars

\* A rectangle was committed in view mode (its drag began in an edit mode) over
\* cells of which some are masked and some are not.
C2_Witness ==
  /\ mode = "view" /\ Len(committed) = 1
  /\ committed[1].mode = "view" /\ committed[1].gesture.kind = "rectangle"
  /\ BatchKeys(committed[1].coordinates) \cap mask /= {}
  /\ BatchKeys(committed[1].coordinates) \ mask /= {}

\* C3: a step that commits batches does so in one mode; in mask mode the mask
\* and every local mask only grow, every notification has add = TRUE and the
\* mask grows by exactly the notified keys; in erase mode they only shrink,
\* add = FALSE and the mask shrinks by exactly the notified keys.
C3_ModeDecidesDirection ==
  [][committed' /= <<>> =>
       /\ mode' = mode
       /\ \A k \in 1..Len(committed') : committed'[k].mode = mode
       /\ mode = "mask" =>
            /\ \A k \in 1..Len(committed') : committed'[k].before \subseteq committed'[k].after
            /\ \A n \in 1..Len(emitted') : emitted'[n].add
            /\ mask \subseteq mask'
            /\ mask' = mask \cup NotifiedKeys(emitted')
       /\ mode = "erase" =>
            /\ \A k \in 1..Len(committed') : committed'[k].after \subseteq committed'[k].before
            /\ \A n \in 1..Len(emitted') : ~emitted'[n].add
            /\ mask' \subseteq mask
            /\ mask' = mask \ NotifiedKeys(emitted')]_vars

\* An erase batch removed one of two masked cells.
C3_Witness ==
  /\ mode = "erase" /\ Len(emitted) = 1 /\ ~emitted[1].add
  /\ Cardinality(emitted[1].maskBefore) = 2 /\ Cardinality(mask) = 1

\* C4: every notification is non-empty, names no coordinate twice, names only
\* coordinates that were absent (add) or present (remove) in the application
\* mask before it; the notifications of a step are, in order, those of its
\* batches that change a membership, each carrying exactly the changed keys.
C4_OnlyChangedCoordinates ==
  LET changing == SelectSeq(committed, ChangesMembership) IN
  /\ \A n \in 1..Len(emitted) :
       LET keys == BatchKeys(emitted[n].values) IN
         /\ Len(emitted[n].values) > 0
         /\ Cardinality(keys) = Len(emitted[n].values)
         /\ emitted[n].add => keys \cap emitted[n].maskBefore = {}
         /\ ~emitted[n].add => keys \subseteq emitted[n].maskBefore
  /\ Len(emitted) = Len(changing)
  /\ \A n \in 1..Len(emitted) :
       /\ emitted[n].view = changing[n].view
       /\ emitted[n].add = (changing[n].mode = "mask")
       /\ BatchKeys(emitted[n].values) = ChangedKeys(changing[n])

\* A batch of two cells, one already masked, was added: one was notified.
C4_Witness ==
  /\ Len(committed) = 1 /\ committed[1].mode = "mask"
  /\ Len(committed[1].coordinates) = 2
  /\ Len(emitted) = 1 /\ Len(emitted[1].values) = 1

\* ------------------------------------------------------ two loaded views
\* Both views show a PairRows x PairCols matrix; mask files may be larger.
InitPair ==
  /\ InitWith(<<PairRows, PairRows>>, <<PairCols, PairCols>>, "mask", "hand")
  /\ probe = [stage |-> "none"]

SpecPair == InitPair /\ [][Next]_vars

\* C5: after every event (its notifications and the flush of the watchers
\* included) each view's local mask equals the application mask.
C5_ViewsShareOneMask ==
  \A v \in Views : localMask[v] = mask

\* The right view erased a cell while a cell outside its grid stays masked.
C5_Witness ==
  /\ Len(emitted) = 1 /\ emitted[1].view = 2 /\ ~emitted[1].add
  /\ mask = {coordToKey(0, 1)}
  /\ localMask[1] = mask /\ localMask[2] = mask

\* --------------------------------------------------------- polygon commits
\* C11: a closeShape that finds fewer than 3 vertices discards them and hands
\* no batch to the mask store; when every closeShape of a step is of that
\* kind, the step changes no mask and emits no notification.
C11_DegeneratePolygon ==
  [][/\ \A k \in 1..Len(closed') :
          Len(closed'[k].nodes) < 3 =>
            /\ shapeNodes'[closed'[k].view] = <<>>
            /\ \A c \in 1..Len(committed') : committed'[c].view /= closed'[k].view
            /\ \A n \in 1..Len(emitted') : emitted'[n].view /= closed'[k].view
     /\ (closed' /= <<>> /\ \A k \in 1..Len(closed') : Len(closed'[k].nodes) < 3) =>
          /\ mask' = mask
          /\ localMask' = localMask
          /\ emitted' = <<>>
          /\ committed' = <<>>]_vars

\* Two pending vertices were committed in mask mode over unmasked cells.
C11_Witness ==
  /\ Len(closed) = 1 /\ Len(closed[1].nodes) = 2
  /\ mode = "mask" /\ tool = "shape" /\ mask = {}
  /\ shapeNodes[closed[1].view] = <<>>

\* What a mousedown on a cell rect of view v does to the polygon of that view:
\* the first vertex clicked again closes the pending list as it is, any other
\* cell becomes the last vertex.
ClickOutcome(event) ==
  LET v == event.over
      cell == event.cellAt[v]
      after == AfterMouseDown(event)
  IN IF Len(shapeNodes[v]) > 0 /\ shapeNodes[v][1] = cell
     THEN /\ after.shapeNodes[v] = <<>>
          /\ after.closed
               = <<[view |-> v, nodes |-> shapeNodes[v], caller |-> "addShapeNode"]>>
          /\ \A c \in 1..Len(after.committed) :
               /\ after.committed[c].gesture.kind = "polygon"
               /\ after.committed[c].gesture.nodes = shapeNodes[v]
          /\ Len(shapeNodes[v]) >= 3 => Len(after.committed) = 1
     ELSE /\ after.shapeNodes[v] = Append(shapeNodes[v], cell)
          /\ after.closed = <<>> /\ after.committed = <<>> /\ after.emitted = <<>>
          /\ after.mask = mask

\* C13 as stated: every click on a cell with the shape tool in an edit mode.
C13_AsStated ==
  \A event \in {e \in PointerEvents : e.onRect} :
    (tool = "shape" /\ EditMode(Cur)) => ClickOutcome(event)

\* C13: with the shape tool in an edit mode and ctrl / cmd not held, a
\* mousedown on a cell appends exactly that cell as the last vertex, unless
\* the cell is the first pending vertex: then nothing is appended, closeShape
\* runs on the pending list as it is, and the list is empty afterwards.
C13_ClickAppendsOrCloses ==
  \A event \in {e \in PointerEvents : e.onRect} :
    (tool = "shape" /\ EditMode(Cur) /\ ~isCtrlPressed[event.over])
      => ClickOutcome(event)

\* A click on the first of three pending vertices committed them.
C13_Witness ==
  /\ Len(closed) = 1 /\ closed[1].caller = "addShapeNode"
  /\ Len(closed[1].nodes) = 3
  /\ Len(committed) = 1 /\ committed[1].gesture.nodes = closed[1].nodes
  /\ shapeNodes[closed[1].view] = <<>> /\ ~isCtrlPressed[closed[1].view]

EscapeEvents == {e \in KeyEvents : e.key = "Escape"}

\* C14: an Escape keydown while some view has pending vertices leaves every
\* view without pending vertices, and changes no mask and emits nothing.
C14_EscapeDiscards ==
  \A event \in EscapeEvents :
    (\E v \in Views : shapeNodes[v] /= <<>>) =>
      LET after == AfterKeyDown(event)
      IN /\ \A v \in Views : after.shapeNodes[v] = <<>>
         /\ after.mask = mask /\ after.localMask = localMask
         /\ after.emitted = <<>> /\ after.committed = <<>>

\* Vertices are pending in view mode: the mode went from erase to view, which
\* the watcher of (tool, mode) does not answer with clearShape.
C14_PendingInViewMode ==
  /\ tool = "shape" /\ mode = "view"
  /\ \E v \in Views : Len(shapeNodes[v]) = 2

\* The state after an event has left the shape tool with nothing pending,
\* nothing closed or committed, and the masks as they were.
Discarded(after) ==
  /\ \A v \in Views : after.shapeNodes[v] = <<>>
  /\ after.closed = <<>> /\ after.committed = <<>> /\ after.emitted = <<>>
  /\ after.mask = mask /\ after.localMask = localMask

\* C15: whenever the shape tool is active, a toolbar click or a hotkey that
\* selects another tool leaves no vertex pending in any view (so that no
\* later closeShape finds a vertex placed before the switch), closes and
\* commits nothing, and changes no mask.
C15_ToolSwitchDiscards ==
  tool = "shape" =>
    /\ \A t \in {tools[k] : k \in 1..Len(tools)} \ {"shape"} : Discarded(AfterSetTool(t))
    /\ \A event \in KeyEvents :
         AfterKeyDown(event).tool /= "shape" => Discarded(AfterKeyDown(event))

\* Three vertices are pending with the shape tool, and both the toolbar and the
\* hotkey 2 select the point tool.
C15_Witness ==
  /\ tool = "shape" /\ mode = "mask" /\ Len(shapeNodes[1]) = 3
  /\ AfterSetTool("point").tool = "point"
  /\ AfterSetTool("point").shapeNodes[1] = <<>>
  /\ \E event \in KeyEvents :
       /\ event.key = "2" /\ AfterKeyDown(event).tool = "point"
       /\ AfterKeyDown(event).shapeNodes[1] = <<>>

C20_PointToolOnly ==
  \A event \in MoveEvents :
    LET after == AfterMouseMove(event) IN
    (after.emitted /= <<>> \/ after.mask /= mask \/ after.localMask /= localMask)
      => tool = "point"

\* The shape tool is active in mask mode while shift and the primary button
\* are held and cell (0,0) is not masked.
C20_ShapeDragArmed ==
  /\ tool = "shape" /\ mode = "mask" /\ ~zoomGesture
  /\ isShiftPressed[1] /\ isMousePressed[1] /\ ~isCtrlPressed[1]
  /\ coordToKey(0, 0) \notin mask

\* ------------------------------------------------------- interaction state
\* The key of digit d, on the top row ("Digit") or on the numpad ("Numpad").
DigitKey(d, prefix) ==
  [key |-> Digits[d + 1], code |-> [prefix |-> prefix, suffix |-> <<Digits[d + 1]>>]]

\* A key that is not a digit.
OtherKey(key) == [key |-> key, code |-> [prefix |-> "Key", suffix |-> <<>>]]

\* C21: the mode is one of mask, erase, view and the tool one of hand, point,
\* select, shape, from (mask, hand) on; the keydown of digit d sets the tool
\* to the d-th tool for d in 1..4 and leaves it for 0 and 5..9, and leaves
\* the mode; a / z / e (either case) set the mode to mask / erase / view and
\* leave the tool; any other key leaves both; and no keyup, pointer event or
\* mask file load changes either.
C21_InteractionState ==
  /\ mode = "mask" /\ tool = "hand"
  /\ [](/\ mode \in {"mask", "erase", "view"}
        /\ tool \in {"hand", "point", "select", "shape"}
        /\ \A d \in 0..9, prefix \in {"Digit", "Numpad"} :
             LET after == AfterKeyDown(DigitKey(d, prefix)) IN
             /\ after.mode = mode
             /\ after.tool = IF d \in 1..4
                             THEN <<"hand", "point", "select", "shape">>[d]
                             ELSE tool
        /\ \A key \in {"a", "A", "z", "Z", "e", "E"} :
             LET after == AfterKeyDown(OtherKey(key)) IN
             /\ after.tool = tool
             /\ after.mode = CASE key \in {"a", "A"} -> "mask"
                               [] key \in {"z", "Z"} -> "erase"
                               [] key \in {"e", "E"} -> "view"
        /\ \A key \in {"h", "H", "x", "Shift", "Control", "Meta", "Escape", "Enter"} :
             LET after == AfterKeyDown(OtherKey(key)) IN
             after.tool = tool /\ after.mode = mode
        /\ \A event \in KeyEvents :
             AfterKeyUp(event).tool = tool /\ AfterKeyUp(event).mode = mode
        /\ \A event \in PointerEvents :
             /\ AfterMouseDown(event).tool = tool /\ AfterMouseDown(event).mode = mode
             /\ AfterMouseMove(event).tool = tool /\ AfterMouseMove(event).mode = mode
             /\ AfterMouseUp(event).tool = tool /\ AfterMouseUp(event).mode = mode
        /\ \A maskData \in MaskFiles :
             AfterLoadMask(maskData).tool = tool /\ AfterLoadMask(maskData).mode = mode)

\* The shape tool and the erase mode were chosen with pending vertices, and
\* the mask is not empty.
C21_Witness ==
  /\ tool = "shape" /\ mode = "erase"
  /\ Len(shapeNodes[1]) > 0 /\ mask /= {}

\* ------------------------------------------------- selection in progress
\* C23: after every mouseup of the primary button no rectangle selection is
\* in progress in any view: no start corner, no current corner, no overlay
\* rectangle.
C23_NoSelectionAfterUp ==
  \A event \in UpEvents :
    LET after == AfterMouseUp(event) IN
    \A v \in Views :
      /\ ~after.isSelecting[v] /\ ~after.selectionRect[v]
      /\ after.selectionStart[v] = Null /\ after.selectionEnd[v] = Null

\* The button is up and the select tool is active while a selection that an
\* earlier drag started is still in progress: the next mouseup commits it.
C23_StaleSelection ==
  /\ tool = "select" /\ mode = "mask" /\ ~isMousePressed[1] /\ ~zoomGesture
  /\ isSelecting[1] /\ selectionRect[1] /\ selectionStart[1] /= Null

\* ---------------------------------------------------------------- uploads
\* The application before any file is loaded; files are picked and read.
InitUpload == InitWith(<<0, 0>>, <<0, 0>>, "mask", "hand") /\ probe = [stage |-> "none"]

NextUpload ==
  \/ \E files \in DataFileLists : PickData(files)
  \/ \E files \in MaskFileLists : PickMask(files)
  \/ \E i \in 1..Len(uploads) : FileRead(i)

SpecUpload == InitUpload /\ [][NextUpload]_vars

\* after leaves both matrices (dimensions and file names) and the mask as
\* they are.
DataAndMaskKept(after) ==
  /\ after.rows = rows /\ after.cols = cols /\ after.filename = filename
  /\ after.mask = mask /\ after.localMask = localMask

\* C22: picking more files than allowed sets an error message and leaves the
\* two matrices and the mask as they were; when the read or the parse of a
\* file fails, the handler sets an error message and leaves them as they
\* were; and each step of a two-file upload either leaves both matrices as
\* they were or replaces both by the two files.
C22_FailedUploadKeepsAll ==
  /\ \A files \in {l \in DataFileLists : Len(l) > 2} :
       AfterPickData(files).error /= "" /\ DataAndMaskKept(AfterPickData(files))
  /\ \A files \in {l \in MaskFileLists : Len(l) > 1} :
       AfterPickMask(files).error /= "" /\ DataAndMaskKept(AfterPickMask(files))
  /\ \A i \in 1..Len(uploads) :
       LET u == uploads[i]
           after == AfterFileRead(i)
       IN /\ u.files[u.parsed + 1].outcome /= "ok" =>
               after.error /= "" /\ DataAndMaskKept(after)
          /\ (u.kind = "data" /\ Len(u.files) = 2) =>
               \/ DataAndMaskKept(after)
               \/ /\ after.filename = <<u.files[1].name, u.files[2].name>>
                  /\ after.rows = <<u.files[1].rows, u.files[2].rows>>
                  /\ after.cols = <<u.files[1].cols, u.files[2].cols>>
                  /\ u.files[1].outcome = "ok" /\ u.files[2].outcome = "ok"

\* The first file of a two-file upload is parsed and the second, which will
\* fail, is awaited, while data and a mask are loaded.
C22_Witness ==
  /\ rows[1] > 0 /\ rows[2] > 0 /\ mask /= {}
  /\ \E i \in 1..Len(uploads) :
       /\ uploads[i].kind = "data" /\ Len(uploads[i].files) = 2
       /\ uploads[i].parsed = 1 /\ uploads[i].files[2].outcome /= "ok"
       /\ uploads[i].files[1].name /= filename[1]

\* --------------------------------------------------------------- clear mask
\* C25: after a click on the Clear Mask button of the advanced panel the
\* application mask is empty and both views' local masks are empty.
C25_ClearMaskClears ==
  /\ AfterClearMask.mask = {}
  /\ \A v \in Views : AfterClearMask.localMask[v] = {}

\* A mask with a masked cell that a click on Clear Mask leaves as it is.
C25_MaskSurvivesClear ==
  /\ mask /= {} /\ localMask[1] = mask
  /\ AfterClearMask.mask = mask /\ AfterClearMask.localMask[1] = mask

\* ------------------------------------------------------- two grids, tools
\* Two views with grids of different shapes; the mask is changed by the
\* pointer tools only (no mask file is loaded).
InitTools ==
  /\ InitWith(<<ToolsLeftRows, ToolsRightRows>>, <<ToolsLeftCols, ToolsRightCols>>,
              "mask", "point")
  /\ probe = [stage |-> "none"]

NextTools ==
  \/ \E event \in {e \in PointerEvents : e.button = 0} : MouseDown(event)
  \/ \E event \in MoveEvents : MouseMove(event)
  \/ \E event \in UpEvents : MouseUp(event)
  \/ \E event \in {e \in KeyEvents : e.key \in {"Shift", "Enter"}} : KeyDown(event)
  \/ \E t \in {"point", "select", "shape"} : SetTool(t)
  \/ \E m \in {"mask", "erase"} : SetMode(m)

SpecTools == InitTools /\ [][NextTools]_vars

C27_NoEditWhileCtrl ==
  ctrlKey =>
    /\ \A event \in PointerEvents : AfterMouseDown(event).mask = mask
    /\ \A event \in MoveEvents : AfterMouseMove(event).mask = mask
    /\ \A event \in UpEvents : AfterMouseUp(event).mask = mask

\* A pointer-up with ctrl held committed the rectangle of a selection: the
\* cells of the rectangle were added to the mask.
C27_RectangleWithCtrl ==
  /\ ctrlKey /\ isCtrlPressed[1]
  /\ Len(committed) = 1 /\ committed[1].gesture.kind = "rectangle"
  /\ Len(emitted) = 1 /\ emitted[1].add
  /\ mask /= emitted[1].maskBefore

\* ------------------------------------------------------ vertices and modes
\* C28: whenever the mode is view no view has pending polygon vertices.
C28_NoVerticesInViewMode ==
  mode = "view" => \A v \in Views : shapeNodes[v] = <<>>

\* Three vertices are pending in view mode and are still pending once the
\* mode is switched back to mask, where Enter can commit them.
C28_VerticesSurviveView ==
  /\ mode = "view" /\ tool = "shape"
  /\ Len(shapeNodes[1]) = 3
  /\ AfterSetMode("mask").shapeNodes[1] = shapeNodes[1]

\* ------------------------------------------------------------ painted cells
\* Both views are loaded; cells are masked and erased with the point tool in
\* either view, and mask files are loaded, the all-zero ones included.
NextPaint ==
  \/ SetTool("point")
  \/ \E m \in {"mask", "erase"} : SetMode(m)
  \/ \E event \in {e \in PointerEvents : e.button = 0 /\ e.onRect} : MouseDown(event)
  \/ \E event \in UpEvents : MouseUp(event)
  \/ \E maskData \in MaskFiles : LoadMask(maskData)

SpecPaint == InitPair /\ [][NextPaint]_vars

\* C30: once the watchers have run after an event, the cells a view with data
\* paints as masked are the cells of its grid that are in the mask.
C30_PaintedIsMask ==
  \A v \in Views :
    rows[v] > 0 =>
      painted[v] = {cell \in GridCells(rows[v], cols[v]) : coordToKey(cell.y, cell.x) \in mask}

\* The right view erased the last masked cell: the mask and the left view's
\* local mask are empty and the left view still paints the cell as masked.
C30_StalePaint ==
  /\ Len(emitted) = 1 /\ emitted[1].view = 2 /\ ~emitted[1].add
  /\ mask = {} /\ localMask[1] = {}
  /\ painted[1] = {[x |-> 0, y |-> 0]} /\ painted[2] = {}

\* ------------------------------------------------------ device-to-grid map
\* Containers, transforms and grids a pointer position is mapped with.
Containers ==
  {[left |-> 0, top |-> 0, width |-> 600, height |-> 13],
   [left |-> 0, top |-> 0, width |-> 20, height |-> 13],
   [left |-> 7, top |-> 2, width |-> 21, height |-> 13]}

Transforms ==
  {[k |-> k, x |-> t[1], y |-> t[2]] :
     k \in {<<1, 2>>, <<1, 1>>, <<2, 1>>}, t \in {<<0, 0>>, <<-3, 2>>}}

Grids == {[rows |-> 1, cols |-> 3], [rows |-> 2, cols |-> 10]}

InitPointer ==
  /\ InitState
  /\ probe \in {[stage |-> "pointer", event |-> [clientX |-> px, clientY |-> py],
                  rect |-> rect, transform |-> tr, grid |-> grid] :
                   px \in (0..MaxPointerX) \cup {300}, py \in 0..MaxPointerY,
                   rect \in Containers, tr \in Transforms, grid \in Grids}

Locate ==
  /\ probe.stage = "pointer"
  /\ probe' = [probe EXCEPT !.stage = "located"] @@
               [cell |-> getCellAt(probe.event, probe.rect, probe.transform,
                                   probe.grid.rows, probe.grid.cols)]
  /\ UNCHANGED stateVars

NextPointer == Locate

SpecPointer == InitPointer /\ [][NextPointer]_vars

\* The pointer is on the square of (row, col): between the square's edges,
\* the lower ones included, after centring, scaling by k and translating.
\* All terms are multiplied by 2 and by k's denominator.
OnSquare(p, row, col) ==
  LET kn == p.transform.k[1]
      kd == p.transform.k[2]
      X == 2 * kd * (p.event.clientX - p.rect.left - p.transform.x)
      Y == 2 * kd * (p.event.clientY - p.rect.top - p.transform.y)
      offX2 == p.rect.width - p.grid.cols * squareSize
      offY2 == p.rect.height - p.grid.rows * squareSize
  IN /\ kn * (offX2 + 2 * col * squareSize) <= X
     /\ X < kn * (offX2 + 2 * (col + 1) * squareSize)
     /\ kn * (offY2 + 2 * row * squareSize) <= Y
     /\ Y < kn * (offY2 + 2 * (row + 1) * squareSize)

\* C16: the result is the cell of the grid on whose 6 x 6 square the pointer
\* is, and none exactly when it is on no square of the grid; in a container
\* 600 wide with 10 columns and the identity transform, x = 300 is column 5.
C16_DeviceToGrid ==
  probe.stage = "located" =>
    /\ \A row \in 0..(probe.grid.rows - 1), col \in 0..(probe.grid.cols - 1) :
         OnSquare(probe, row, col) <=> probe.cell = [x |-> col, y |-> row]
    /\ probe.cell = Null <=>
         ~\E row \in 0..(probe.grid.rows - 1), col \in 0..(probe.grid.cols - 1) :
            OnSquare(probe, row, col)
    /\ (/\ probe.rect = [left |-> 0, top |-> 0, width |-> 600, height |-> 13]
        /\ probe.grid.cols = 10 /\ probe.transform = [k |-> <<1, 1>>, x |-> 0, y |-> 0]
        /\ probe.event.clientX = 300 /\ probe.cell /= Null) => probe.cell.x = 5

\* The pointer at the horizontal centre of the 600-wide container was mapped
\* to column 5 of 10.
C16_Witness ==
  /\ probe.stage = "located"
  /\ probe.rect.width = 600 /\ probe.grid.cols = 10
  /\ probe.transform = [k |-> <<1, 1>>, x |-> 0, y |-> 0]
  /\ probe.event.clientX = 300
  /\ probe.cell /= Null /\ probe.cell.x = 5

\* ---------------------------------------------------- pan and zoom scenario
\* The pointer stays off the cells (the background of the left view, or
\* outside the views), so that the session only pans and zooms.
OffGrid(event) == ~event.onRect /\ event.cellAt[1] = Null /\ event.over /= 2

InitZoom == Init

NextZoom ==
  \/ \E t \in {tools[k] : k \in 1..Len(tools)} : SetTool(t)
  \/ \E event \in {e \in KeyEvents : e.key \in {"Control", "1", "2"}} : KeyDown(event)
  \/ \E event \in {e \in KeyEvents : e.key = "Control"} : KeyUp(event)
  \/ \E event \in {e \in PointerEvents : OffGrid(e)} : MouseDown(event)
  \/ \E event \in {e \in PanEvents : OffGrid(e)} : MouseMove(event)
  \/ \E event \in {e \in UpEvents : OffGrid(e)} : MouseUp(event)
  \/ \E event \in WheelEvents : Wheel(event)

SpecZoom == InitZoom /\ [][NextZoom]_vars

\* The condition the gesture policy names: the hand tool or the modifier.
PolicyAccepts(event) == tool = "hand" \/ event.ctrlKey

\* The wheel event would rescale: the scale is not already at the limit the
\* event pushes it towards.
Rescales(event) ==
  RatMax(scaleExtent[1], RatMin(scaleExtent[2],
    RatNorm(RatMul(transform.k, event.factor)))) /= transform.k

\* C17 as stated: a wheel event over a view that would rescale changes the
\* transform if and only if the tool is hand or the event carries the
\* modifier, and a pointer move changes the transform only if the tool is
\* hand or the event carries the modifier.
C17_AsStated ==
  /\ \A event \in {e \in WheelEvents : e.over /= 0 /\ Rescales(e)} :
       (AfterWheel(event).transform /= transform) <=> PolicyAccepts(event)
  /\ \A event \in {e \in PanEvents : OffGrid(e)} :
       (AfterMouseMove(event).transform /= transform) => PolicyAccepts(event)

\* C17: the policy is applied to each wheel event and to the mousedown that
\* starts a drag.  A wheel event over a view that would rescale changes the
\* transform if and only if the tool is hand or the event carries the
\* modifier, and no other wheel event changes it; a mousedown over a view
\* starts a pan gesture if and only if the tool is hand or the event carries
\* the modifier, and changes no transform; a pointer move changes the
\* transform if and only if a pan gesture is in progress, whatever the tool
\* and the modifier are by then.
C17_GestureStartDecides ==
  /\ \A event \in WheelEvents :
       (AfterWheel(event).transform /= transform)
         <=> (event.over /= 0 /\ Rescales(event) /\ PolicyAccepts(event))
  /\ \A event \in {e \in PointerEvents : OffGrid(e) /\ e.over /= 0} :
       /\ AfterMouseDown(event).transform = transform
       /\ ~zoomGesture => (AfterMouseDown(event).zoomGesture <=> PolicyAccepts(event))
  /\ \A event \in {e \in PanEvents : OffGrid(e)} :
       (AfterMouseMove(event).transform /= transform) <=> zoomGesture

\* A pan gesture that was started under the policy goes on after the tool
\* was switched and the modifier released: the view is panned and rescaled.
C17_Witness ==
  /\ zoomGesture /\ tool /= "hand" /\ ~ctrlKey
  /\ transform.x /= Rat(0) /\ transform.k /= Rat(1)

\* ------------------------------------------------------- scale scenario
\* Wheel zooms under the hand tool, the zoom buttons and the slider, from
\* the identity transform.
InitScale == Init

NextScale ==
  \/ \E event \in WheelEvents : Wheel(event)
  \/ ZoomIn
  \/ ZoomOut
  \/ \E newValue \in SliderValues : UpdateSlider(newValue)

SpecScale == InitScale /\ [][NextScale]_vars

\* C18: the scale of the shared transform is at least 0.1 and at most 10.
C18_ScaleWithinExtent ==
  /\ ~RatLess(transform.k, <<1, 10>>)
  /\ ~RatLess(<<10, 1>>, transform.k)

\* 53 %: wheel zooms took the scale to the upper limit and down to 0.625,
\* shown as 63 %, and the zoom-out button was pressed.
C18_Witness == transform.k = <<53, 100>>

\* ------------------------------------------------ synchronised views
\* Both views are loaded and the hand tool is selected; the pointer stays off
\* the cells, in either view.
OffCells(event) ==
  /\ event.over /= 0 /\ event.button = 0
  /\ ~event.onRect /\ \A v \in Views : event.cellAt[v] = Null

NextSync ==
  \/ \E event \in {e \in PointerEvents : OffCells(e)} : MouseDown(event)
  \/ \E event \in {e \in PanEvents : OffCells(e)} : MouseMove(event)
  \/ \E event \in {e \in UpEvents : OffCells(e)} : MouseUp(event)
  \/ \E event \in WheelEvents : Wheel(event)
  \/ ZoomIn
  \/ \E newValue \in SliderValues : UpdateSlider(newValue)

SpecSync == InitPair /\ [][NextSync]_vars

\* The application's transform and every view's are one value, and handing
\* it to a view once more changes nothing.
Synchronised(s) ==
  /\ \A v \in Views : s.viewTransform[v] = s.transform
  /\ \A v \in Views : viewUpdateTransform(s, v) = s

\* C24: at rest both views' transforms equal the application's transform;
\* after a wheel or pan gesture in either view the transform the gesture
\* produced in that view is the application's and both views', after a
\* zoom-control change the transform the control computed is, and applying the
\* stored transform to a view once more (its re-emission included) changes
\* nothing.
C24_ViewsShareTransform ==
  /\ Synchronised(Cur)
  /\ \A event \in WheelEvents :
       /\ Synchronised(AfterWheel(event))
       /\ event.over /= 0 =>
            AfterWheel(event).transform = wheeled(Cur, event).viewTransform[event.over]
  /\ zoomGesture =>
       \A event \in PanEvents :
         /\ Synchronised(AfterMouseMove(event))
         /\ AfterMouseMove(event).transform =
              mousemoved(Cur, event).viewTransform[gestureView]
  /\ Synchronised(AfterZoomIn) /\ AfterZoomIn.transform = zoomIn(Cur).transform
  /\ Synchronised(AfterZoomOut) /\ AfterZoomOut.transform = zoomOut(Cur).transform
  /\ \A newValue \in SliderValues :
       /\ Synchronised(AfterUpdateSlider(newValue))
       /\ AfterUpdateSlider(newValue).transform = updateSlider(Cur, newValue).transform

\* A pan in the right view, after a change of scale, is shown by both views.
C24_Witness ==
  /\ gestureView = 2
  /\ transform.k /= Rat(1) /\ transform.x /= Rat(0)
  /\ viewTransform[1] = transform /\ viewTransform[2] = transform

\* -------------------------------------------------------- polygon scenario
\* One view with a PolyRows x PolyCols matrix, the shape tool in mask mode;
\* primary-button clicks on cells while the mask is still empty (the batch of
\* a polygon does not depend on the mask), Enter and Escape.
InitShape ==
  /\ InitWith(<<PolyRows, 0>>, <<PolyCols, 0>>, "mask", "shape")
  /\ probe = [stage |-> "none"]

NextShape ==
  \/ mask = {} /\ \E event \in {e \in PointerEvents : e.button = 0 /\ e.onRect} :
                     MouseDown(event)
  \/ \E event \in {e \in KeyEvents : e.key \in {"Enter", "Escape"}} : KeyDown(event)

SpecShape == InitShape /\ [][NextShape]_vars

\* Geometry, stated without the source's tests.  Coordinates are doubled.
\* The horizontal ray from p to the right crosses the edge from a to b: the
\* edge's ends lie on either side of the ray's line and p is to the left of
\* the edge at that height.
RayCrosses(p, a, b) ==
  LET lo == IF a[2] < b[2] THEN a ELSE b
      hi == IF a[2] < b[2] THEN b ELSE a
  IN /\ lo[2] < p[2] /\ p[2] < hi[2]
     /\ (p[1] - lo[1]) * (hi[2] - lo[2]) < (hi[1] - lo[1]) * (p[2] - lo[2])

\* Some point a + t (b - a), 0 <= t <= 1, lies in the closed box: the
\* constraints <<m, c>>, each meaning m * t <= c, have a common solution.
SegmentMeetsBox(a, b, box) ==
  LET dx == b[1] - a[1]
      dy == b[2] - a[2]
      cons == {<<-dx, a[1] - box.left>>, <<dx, box.right - a[1]>>,
               <<-dy, a[2] - box.top>>, <<dy, box.bottom - a[2]>>,
               <<-1, 0>>, <<1, 1>>}
  IN /\ \A c \in cons : c[1] = 0 => c[2] >= 0
     /\ \A lo \in cons, hi \in cons :
          (lo[1] < 0 /\ hi[1] > 0) => lo[2] * hi[1] >= hi[2] * lo[1]

\* The cells the polygon selects: centre inside by the even-odd rule, or an
\* edge (the closing edge included) meeting the box [x, x + 0.5] x [y, y + 0.5].
PolygonCells(nodes, r, c) ==
  LET n == Len(nodes)
      P(i) == <<2 * nodes[i].x, 2 * nodes[i].y>>
      next(i) == IF i = n THEN 1 ELSE i + 1
      inside(cell) ==
        Cardinality({i \in 1..n :
           RayCrosses(<<2 * cell.x + 1, 2 * cell.y + 1>>, P(i), P(next(i)))}) % 2 = 1
      touched(cell) ==
        \E i \in 1..n :
          SegmentMeetsBox(P(i), P(next(i)),
            [left |-> 2 * cell.x, right |-> 2 * cell.x + 1,
             top |-> 2 * cell.y, bottom |-> 2 * cell.y + 1])
  IN {cell \in GridCells(r, c) : inside(cell) \/ touched(cell)}

Triangle044 == <<[x |-> 0, y |-> 0], [x |-> 0, y |-> 4], [x |-> 4, y |-> 0]>>

InitVertex ==
  /\ InitWith(<<VertexRows, 0>>, <<VertexCols, 0>>, "mask", "shape")
  /\ probe = [stage |-> "none"]

VertexClick(event) ==
  /\ mask = {}
  /\ \A v \in Views : Len(AfterMouseDown(event).shapeNodes[v]) <= MaxVertices
  /\ Becomes(AfterMouseDown(event))

NextVertex ==
  \/ \E event \in {e \in PointerEvents : e.button = 0 /\ e.onRect} : VertexClick(event)
  \/ \E event \in {e \in KeyEvents : e.key = "Enter"} : KeyDown(event)

SpecVertex == InitVertex /\ [][NextVertex]_vars

\* C29: every closeShape that finds at least 3 vertices hands the mask store
\* a batch that names every vertex cell, and in mask mode every vertex cell
\* is in the view's local mask and in the application mask afterwards.
C29_VertexCellsRasterised ==
  \A k \in 1..Len(closed) :
    Len(closed[k].nodes) >= 3 =>
      LET v == closed[k].view
          nodes == closed[k].nodes
          mine == SelectSeq(committed, LAMBDA b : b.view = v /\ b.gesture.kind = "polygon")
      IN /\ Len(mine) = 1
         /\ \A n \in 1..Len(nodes) :
              /\ \E i \in 1..Len(mine[1].coordinates) : mine[1].coordinates[i] = nodes[n]
              /\ mode = "mask" =>
                   /\ coordToKey(nodes[n].y, nodes[n].x) \in localMask[v]
                   /\ coordToKey(nodes[n].y, nodes[n].x) \in mask

\* The vertices of a polygon whose edges (0,0)-(2,2) and (2,0)-(0,2) cross.
BowTie == <<[x |-> 0, y |-> 0], [x |-> 2, y |-> 2], [x |-> 2, y |-> 0], [x |-> 0, y |-> 2]>>

\* The self-intersecting polygon was committed and its four vertex cells are
\* masked.
C29_Witness ==
  /\ Len(closed) = 1 /\ closed[1].nodes = BowTie
  /\ Len(committed) = 1 /\ committed[1].gesture.kind = "polygon"
  /\ \A n \in 1..4 : coordToKey(BowTie[n].y, BowTie[n].x) \in mask

\* ------------------------------------------------------ rectangle scenario
\* One view with a RectRows x RectCols matrix, the select tool in mask mode,
\* and pointer events only; drags begin while the mask is still empty (the
\* batch of a rectangle does not depend on the mask).
InitRect ==
  /\ InitWith(<<RectRows, 0>>, <<RectCols, 0>>, "mask", "select")
  /\ probe = [stage |-> "none"]

NextRect ==
  \/ mask = {} /\ \E event \in PointerEvents : MouseDown(event)
  \/ \E event \in MoveEvents : MouseMove(event)
  \/ \E event \in UpEvents : MouseUp(event)

SpecRect == InitRect /\ [][NextRect]_vars

Between(n, p, q) == (p <= n /\ n <= q) \/ (q <= n /\ n <= p)

\* C10: a pointer-up commits at most one rectangle batch per view; the batch
\* names each cell of the grid between the two corners (inclusive) exactly
\* once, and no other; the loops give the same set with the corners
\* exchanged; corners (2,2) and (0,0) give the 9 cells (0,0)..(2,2).
C10_RectangleBatch ==
  /\ \A v \in Views :
       Cardinality({k \in 1..Len(committed) :
                      committed[k].view = v /\ committed[k].gesture.kind = "rectangle"}) <= 1
  /\ \A k \in 1..Len(committed) :
       committed[k].gesture.kind = "rectangle" =>
         LET a == committed[k].gesture.start
             b == committed[k].gesture.end
             v == committed[k].view
             batch == committed[k].coordinates
             cells == {batch[n] : n \in 1..Len(batch)}
         IN /\ cells = {c \in GridCells(rows[v], cols[v]) :
                          Between(c.x, a.x, b.x) /\ Between(c.y, a.y, b.y)}
            /\ Cardinality(cells) = Len(batch)
            /\ LET other == selectedCells(b, a, rows[v], cols[v])
               IN cells = {other[n] : n \in 1..Len(other)}
            /\ (a = [x |-> 2, y |-> 2] /\ b = [x |-> 0, y |-> 0]) =>
                 cells = {[x |-> i, y |-> j] : i \in 0..2, j \in 0..2}

\* The drag from (2,2) to (0,0) was committed as one batch of 9 cells.
C10_Witness ==
  /\ Len(committed) = 1 /\ committed[1].gesture.kind = "rectangle"
  /\ committed[1].gesture.start = [x |-> 2, y |-> 2]
  /\ committed[1].gesture.end = [x |-> 0, y |-> 0]
  /\ Len(committed[1].coordinates) = 9
  /\ Len(emitted) = 1

====
